---- MODULE Spec2Model ----
(***************************************************************************)
(* Knowledge-graph extraction pipeline of chaishu-worker-service:          *)
(* task service (relational store), provider queues and throttle (KV       *)
(* store), provider-bound worker processes and the guard loop.             *)
(***************************************************************************)
EXTENDS Integers, Sequences, FiniteSets, TLC

\* ------------------------------------------------------------------ bounds
NumTasks == 2
NumChapters == 2
NumWorkers == 3
\* Clock resolution and horizon: time.time() is read in ticks of half a second.
TicksPerSecond == 2
MaxTime == 4
\* Largest AIProvider.rate_limit_interval (seconds) the rows are drawn with.
MaxInterval == 2
\* Most increment_failure calls on one provider between two resets.
MaxFailCalls == 4
\* Longest provider queue.
MaxQueueLen == 2
\* Largest batch_size load_next_batch is called with.
MaxBatch == 2
\* retry_interval_minutes of the tasks, in ticks of the clock.
RetryTicks == 2

Tasks == 1..NumTasks
Chapters == 1..NumChapters
Workers == 1..NumWorkers

\* Active AIProvider rows plus the synthetic provider of the rule extractor.
AIProviders == {"p1", "p2"}
Providers == AIProviders \cup {"rules"}

\* KnowledgeGraphTask.status and KnowledgeGraphChapterStatus.status values
TaskStatuses == {"created", "running", "paused", "completed", "failed", "cancelled"}
ChapterStatuses == {"pending", "running", "completed", "failed", "skipped"}

VARIABLES
    status,             \* KnowledgeGraphTask.status, per task
    row_lock,           \* holder of the SELECT ... FOR UPDATE row lock, 0 = free
    chapter_status,     \* KnowledgeGraphChapterStatus.status, per task and chapter
    completed_chapters, \* KnowledgeGraphTask.completed_chapters
    failed_chapters,    \* KnowledgeGraphTask.failed_chapters
    error_message,      \* whether KnowledgeGraphTask.error_message is set
    total_entities,     \* KnowledgeGraphTask.total_entities
    total_relations,    \* KnowledgeGraphTask.total_relations
    entities_extracted, \* KnowledgeGraphChapterStatus.entities_extracted, per task and chapter
    relations_extracted,\* KnowledgeGraphChapterStatus.relations_extracted
    chapter_error,      \* whether KnowledgeGraphChapterStatus.error_message is set
    use_ai,             \* KnowledgeGraphTask.use_ai
    auto_retry_enabled, \* KnowledgeGraphTask.auto_retry_enabled
    retry_scheduled_at, \* KnowledgeGraphTask.retry_scheduled_at, a clock reading, -1 = NULL
    retry_count,        \* KnowledgeGraphTask.retry_count
    pc,                 \* position of each worker process
    bound,              \* provider a worker process was started for
    cur,                \* task a worker process is dealing with, 0 = none
    seen,               \* value a process read in an earlier statement
    result,             \* what the last service call returned to the process
    target,             \* provider a throttle call of the process is about
    pend,               \* chapters left in the loop of build_knowledge_graph_with_task
    got,                \* whether the extraction of the chapter has yielded anything
    ret,                \* where the process goes on after increment_failure returns
    worker_task,        \* field task_id of the KV hash kg:worker:<pid>, 0 = absent
    sum_entities,       \* total_entities of build_knowledge_graph_with_task, per process
    sum_relations,      \* total_relations of build_knowledge_graph_with_task
    begun,              \* history: chapters a process marked running since its last pop
    write_error,        \* history: whether an upsert of the chapter just closed raised
    extractor,          \* history: the extractor run on the chapter in progress
    orphan,             \* field task_id of the hash a killed process left, 0 = no hash
    node_named,         \* whether KG_WORKER_NODE_NAME is set for the worker processes
    loop_count,         \* loop_count of the guard thread, modulo ZOMBIE_EVERY
    kill_age,           \* history: guard iterations since a process was killed, -1 = none
    now,                \* wall clock, in ticks of 1/TicksPerSecond second
    rate_limit_interval,\* AIProvider.rate_limit_interval, seconds, per provider
    last_request,       \* KV key ai:provider:last_request:<p>, -1 = absent
    mem_last_request,   \* _last_request_time of each process, -1 = absent
    redis_up,           \* whether the KV store answers (rc.is_connected())
    fail_count,         \* KV key ai:provider:fail:<p>, 0 = absent
    suspend,            \* whether KV key ai:provider:suspend:<p> exists (TTL not run out)
    mem_fail,           \* _fail_counts of each process
    mem_suspended,      \* whether _suspended_until of a process holds a time to come
    queue,              \* KV list kg:ai_queue:<p>, head = left end
    main_queue,         \* KV list kg:main_queue:<p>
    active_batch,       \* KV list kg:active_batch:<p>
    batch_size,         \* the batch_size the callers of load_next_batch pass
    grants,             \* history: the clock readings of the calls that were granted
    init_status,        \* history: the status each task was constructed with
    fails_done,         \* history: increment_failure calls returned since the last reset
    susp_after,         \* history: failures since the last reset when last suspended
    graph_has,          \* whether a node of the graph exists, per node
    graph_task_id,      \* property task_id of a node of the graph, a list of task ids
    create_ret,         \* what the last call of create_task came to, "none" = no call yet
    restart_ret,        \* what the last call of restart_task returned, as a string ("none" = no call yet)
    lock_value,         \* value of the KV key of the distributed lock, <<>> = no key
    lock_expire_at,     \* clock reading at which the key of the lock expires
    lock_pc,            \* whether a process is in the section the lock guards
    lock_mine,          \* lock_value of a process: the value it has set the key to
    lock_ret,           \* what the last release of a process returned, "none" = none yet
    pool_alive,         \* live processes in _worker_processes, per provider
    pool_dead,          \* dead processes still in _worker_processes, per provider
    enq_log,            \* history: references pushed on the main queue watched, in order
    pop_log             \* history: references taken from its active batch, in order

retryCfg == <<auto_retry_enabled, retry_count>>
rowVars == <<entities_extracted, relations_extracted, chapter_error>>
totalVars == <<total_entities, total_relations>>
taskVars == <<chapter_status, completed_chapters, failed_chapters, error_message, use_ai,
              retryCfg, rowVars, totalVars>>
dbVars == <<status, retry_scheduled_at, row_lock, taskVars>>
sumVars == <<sum_entities, sum_relations>>
noteVars == <<begun, write_error, extractor, sumVars>>
callVars == <<pend, got, worker_task, noteVars>>
workVars == <<callVars, ret>>
procVars == <<pc, bound, cur, seen, result, target, workVars>>
rateVars == <<now, rate_limit_interval, last_request, mem_last_request, grants>>
nodeVars == <<orphan, node_named, loop_count, kill_age>>
kvVars == <<redis_up, nodeVars>>
throttleVars == <<fail_count, suspend, mem_fail, mem_suspended>>
queueVars == <<queue, main_queue, active_batch, batch_size>>
graphVars == <<graph_has, graph_task_id>>
lockVars == <<lock_value, lock_expire_at, lock_pc, lock_mine, lock_ret>>
poolVars == <<pool_alive, pool_dead>>
fifoVars == <<enq_log, pop_log>>
restVars == <<init_status, restart_ret, create_ret, lockVars, poolVars, fifoVars>>
histVars == <<restVars, graphVars, fails_done, susp_after>>
fifoEnv == <<init_status, restart_ret, create_ret, lockVars, poolVars, graphVars, fails_done,
            susp_after>>
vars == <<dbVars, procVars, rateVars, kvVars, throttleVars, queueVars, histVars>>

NoResult == [success |-> FALSE, reason |-> "none", val |-> 0]
Reply(ok, why) == [success |-> ok, reason |-> why, val |-> 0]

\* Parts of the state an operation group leaves alone.
QuietWork ==
    /\ pend = [w \in Workers |-> <<>>]
    /\ got = [w \in Workers |-> FALSE]
    /\ ret = [w \in Workers |-> "idle"]
    /\ worker_task = [w \in Workers |-> 0]
    /\ begun = [w \in Workers |-> 0]
    /\ write_error = [w \in Workers |-> FALSE]
    /\ extractor = [w \in Workers |-> "none"]
    /\ sum_entities = [w \in Workers |-> 0]
    /\ sum_relations = [w \in Workers |-> 0]

\* No process has been killed; the guard thread has just been started.
QuietNode ==
    /\ orphan = [w \in Workers |-> 0]
    /\ node_named = FALSE
    /\ loop_count = 0
    /\ kill_age = -1

\* No process holds the distributed lock or has asked for it.
QuietLock ==
    /\ lock_value = <<>>
    /\ lock_expire_at = 0
    /\ lock_pc = [w \in Workers |-> "out"]
    /\ lock_mine = [w \in Workers |-> <<>>]
    /\ lock_ret = [w \in Workers |-> "none"]

\* _worker_processes is empty: no worker process has been started.
QuietPool ==
    /\ pool_alive = [p \in Providers |-> 0]
    /\ pool_dead = [p \in Providers |-> 0]

\* Nothing has been pushed on a main queue or taken from an active batch.
QuietFifo ==
    /\ enq_log = <<>>
    /\ pop_log = <<>>

\* The Chapter node of the graph that chapter row c of task t is about: the
\* first chapter is the same chapter of the novel for every task, the other
\* chapters are chapters of their task alone.
ChapterNode(t, c) == IF c = 1 THEN 1 ELSE (t - 1) * (NumChapters - 1) + c

GraphNodes == 1..(NumTasks * (NumChapters - 1) + 1)

InList(ids, t) == \E i \in 1..Len(ids) : ids[i] = t

\* create_chapter_node: the node is merged and the task id is added to its
\* task_id list unless the list holds it.
create_chapter_node(n, t) ==
    /\ graph_has' = [graph_has EXCEPT ![n] = TRUE]
    /\ graph_task_id' = [graph_task_id EXCEPT ![n] = IF InList(@, t) THEN @ ELSE Append(@, t)]

\* delete_task_nodes_by_task_id: the task id is taken out of the task_id list
\* of every node that holds it, and the nodes whose list is empty then are
\* deleted.
delete_task_nodes_by_task_id(t) ==
    LET Without(ids) == SelectSeq(ids, LAMBDA tid : tid # t)
        Hit(n) == graph_has[n] /\ InList(graph_task_id[n], t)
    IN /\ graph_task_id' = [n \in GraphNodes |->
                               IF Hit(n) THEN Without(graph_task_id[n]) ELSE graph_task_id[n]]
       /\ graph_has' = [n \in GraphNodes |->
                           graph_has[n] /\ ~(Hit(n) /\ Without(graph_task_id[n]) = <<>>)]

\* The graph is empty.
QuietGraph ==
    /\ graph_has = [n \in GraphNodes |-> FALSE]
    /\ graph_task_id = [n \in GraphNodes |-> <<>>]

\* The graph holds the Chapter nodes of the tasks in done, which have been
\* run one after the other.
GraphOf(done) ==
    LET Made(t, n) == t \in done /\ \E c \in Chapters : ChapterNode(t, c) = n
    IN /\ graph_has = [n \in GraphNodes |-> \E t \in done : Made(t, n)]
       /\ graph_task_id = [n \in GraphNodes |->
                              SelectSeq([i \in 1..NumTasks |-> i], LAMBDA t : Made(t, n))]

\* Nothing has been extracted, no chapter row has an error message.
QuietCounts ==
    /\ total_entities = [t \in Tasks |-> 0]
    /\ total_relations = [t \in Tasks |-> 0]
    /\ entities_extracted = [t \in Tasks |-> [c \in Chapters |-> 0]]
    /\ relations_extracted = [t \in Tasks |-> [c \in Chapters |-> 0]]
    /\ chapter_error = [t \in Tasks |-> [c \in Chapters |-> FALSE]]

\* Automatic retry is off (the default of the column), nothing was retried.
QuietRetry ==
    /\ auto_retry_enabled = [t \in Tasks |-> FALSE]
    /\ retry_scheduled_at = [t \in Tasks |-> -1]
    /\ retry_count = [t \in Tasks |-> 0]

QuietTask ==
    /\ chapter_status = [t \in Tasks |-> [c \in Chapters |-> "pending"]]
    /\ completed_chapters = [t \in Tasks |-> 0]
    /\ failed_chapters = [t \in Tasks |-> 0]
    /\ error_message = [t \in Tasks |-> FALSE]
    /\ use_ai = [t \in Tasks |-> TRUE]
    /\ QuietRetry
    /\ QuietCounts

QuietProc ==
    /\ pc = [w \in Workers |-> "idle"]
    /\ bound = [w \in Workers |-> "rules"]
    /\ cur = [w \in Workers |-> 0]
    /\ seen = [w \in Workers |-> 0]
    /\ result = [w \in Workers |-> NoResult]
    /\ target = [w \in Workers |-> "none"]
    /\ QuietWork

QuietDB ==
    /\ status = [t \in Tasks |-> "created"]
    /\ row_lock = [t \in Tasks |-> 0]
    /\ QuietTask

QuietRate ==
    /\ now = 1
    /\ rate_limit_interval = [p \in AIProviders |-> 0]
    /\ last_request = [p \in AIProviders |-> -1]
    /\ mem_last_request = [w \in Workers |-> [p \in AIProviders |-> -1]]
    /\ grants = [p \in AIProviders |-> {}]

QuietThrottle ==
    /\ fail_count = [p \in AIProviders |-> 0]
    /\ suspend = [p \in AIProviders |-> FALSE]
    /\ mem_fail = [w \in Workers |-> [p \in AIProviders |-> 0]]
    /\ mem_suspended = [w \in Workers |-> [p \in AIProviders |-> FALSE]]
    /\ fails_done = [p \in AIProviders |-> 0]
    /\ susp_after = [p \in AIProviders |-> -1]

QuietQueues ==
    /\ queue = [p \in Providers |-> <<>>]
    /\ main_queue = [p \in Providers |-> <<>>]
    /\ active_batch = [p \in Providers |-> <<>>]
    /\ batch_size = 1

\* ------------------------------------------------- try_start_task (C1)
\* The statuses try_start_task refuses, with the reason code it returns.
\* Mutant: a cancelled task is not refused.
StartRefused_NoCancelled == {"running", "completed"}

StartRefused == {"running", "completed", "cancelled"}

StartReason(s) ==
    CASE s = "running" -> "already_running"
      [] s = "completed" -> "already_completed"
      [] s = "cancelled" -> "cancelled"
      [] OTHER -> "started"

\* Mutant: the query without with_for_update() takes no row lock.
LockFree_NoForUpdate(t) == TRUE

\* with_for_update(): the SELECT blocks while another transaction holds the row.
LockFree(t) == row_lock[t] = 0

\* try_start_task, first statement: SELECT ... FOR UPDATE reads the row under lock.
try_start_select(w, t) ==
    /\ pc[w] = "idle"
    /\ LockFree(t)
    /\ row_lock' = [row_lock EXCEPT ![t] = w]
    /\ seen' = [seen EXCEPT ![w] = status[t]]
    /\ cur' = [cur EXCEPT ![w] = t]
    /\ pc' = [pc EXCEPT ![w] = "locked"]
    /\ UNCHANGED <<status, retry_scheduled_at, taskVars, workVars, bound, result, target, rateVars, kvVars, throttleVars, queueVars, histVars>>

\* try_start_task, the rest: refuse or set running, then commit (or close) which
\* releases the row lock.
try_start_commit(w) ==
    /\ pc[w] = "locked"
    /\ LET t == cur[w]
           s == seen[w]
       IN /\ IF s \in StartRefused
             THEN /\ result' = [result EXCEPT ![w] = Reply(FALSE, StartReason(s))]
                  /\ UNCHANGED <<status, retry_scheduled_at>>
             ELSE /\ status' = [status EXCEPT ![t] = "running"]
                  /\ UNCHANGED retry_scheduled_at
                  /\ result' = [result EXCEPT ![w] = Reply(TRUE, "started")]
          /\ row_lock' = [row_lock EXCEPT ![t] = IF row_lock[t] = w THEN 0 ELSE row_lock[t]]
    /\ pc' = [pc EXCEPT ![w] = "done"]
    /\ UNCHANGED <<taskVars, workVars, bound, cur, seen, target, rateVars, kvVars, throttleVars, queueVars, histVars>>

\* try_start_task with an id no row has: the query finds nothing.
try_start_missing(w) ==
    /\ pc[w] = "idle"
    /\ result' = [result EXCEPT ![w] = Reply(FALSE, "task_not_found")]
    /\ pc' = [pc EXCEPT ![w] = "done"]
    /\ UNCHANGED <<dbVars, workVars, bound, cur, seen, target, rateVars, kvVars, throttleVars, queueVars, histVars>>

InitStart ==
    /\ status \in [Tasks -> TaskStatuses]
    /\ init_status = status
    /\ restart_ret = "none"
    /\ create_ret = "none"
    /\ QuietLock
    /\ QuietPool
    /\ QuietFifo
    /\ QuietGraph
    /\ row_lock = [t \in Tasks |-> 0]
    /\ pc = [w \in Workers |-> "idle"]
    /\ bound = [w \in Workers |-> "rules"]
    /\ cur = [w \in Workers |-> 0]
    /\ seen = [w \in Workers |-> "none"]
    /\ result = [w \in Workers |-> NoResult]
    /\ target = [w \in Workers |-> "none"]
    /\ QuietWork
    /\ QuietTask
    /\ redis_up = TRUE
    /\ QuietNode
    /\ QuietRate
    /\ QuietThrottle
    /\ QuietQueues

NextStart ==
    \/ \E w \in Workers, t \in Tasks : try_start_select(w, t)
    \/ \E w \in Workers : try_start_commit(w)
    \/ \E w \in Workers : try_start_missing(w)

\* K processes each call try_start_task once, concurrently, on tasks of any status.
SpecStart == InitStart /\ [][NextStart]_vars

StartDone(t) == {w \in Workers : pc[w] = "done" /\ cur[w] = t}

kv_disconnect ==
    /\ redis_up
    /\ redis_up' = FALSE
    /\ UNCHANGED <<nodeVars, dbVars, procVars, rateVars, throttleVars, queueVars, histVars>>

\* The KV store answers again; the keys it held are still there.
kv_reconnect ==
    /\ ~redis_up
    /\ redis_up' = TRUE
    /\ UNCHANGED <<nodeVars, dbVars, procVars, rateVars, throttleVars, queueVars, histVars>>

\* time.time() advances.
Tick ==
    /\ now < MaxTime
    /\ now' = now + 1
    /\ UNCHANGED <<dbVars, procVars, kvVars, throttleVars, queueVars, histVars, rate_limit_interval,
                   last_request, mem_last_request, grants>>

\* ------------------------------------ try_acquire_request_permit (C5)
\* A Lua number returned by a script becomes a KV-store integer reply: the
\* fraction is dropped.  x is in ticks, the reply is in whole seconds.
LuaNumberToIntegerReply(x) == x \div TicksPerSecond

\* _RATE_LIMIT_LUA_SCRIPT: the number the script returns (in ticks) and the value
\* it leaves in the key, for clock reading t, interval iv (seconds) and key value
\* last (-1 = key absent).  The readings are multiples of half a second, which
\* the script's number/string round trip through SET and GET keeps exactly.
LuaRateLimit(t, iv, last) ==
    IF last = -1
    THEN [ret |-> 0, key |-> t]
    ELSE LET elapsed == t - last
         IN IF elapsed >= iv * TicksPerSecond
            THEN [ret |-> 0, key |-> t]
            ELSE [ret |-> iv * TicksPerSecond - elapsed, key |-> last]

\* The reply of try_acquire_request_permit: granted, or refused with a wait (ticks).
Permit(ok, w8) == [success |-> ok, reason |-> "permit", val |-> w8]

\* try_acquire_request_permit, up to `now = time.time()`: the interval of the
\* provider row and the clock are read; interval <= 0 grants at once.
permit_begin(w, p) ==
    /\ pc[w] = "idle"
    /\ IF rate_limit_interval[p] <= 0
       THEN /\ result' = [result EXCEPT ![w] = Permit(TRUE, 0)]
            /\ UNCHANGED <<pc, target, seen>>
       ELSE /\ pc' = [pc EXCEPT ![w] = "permit"]
            /\ target' = [target EXCEPT ![w] = p]
            /\ seen' = [seen EXCEPT ![w] = now]
            /\ result' = [result EXCEPT ![w] = NoResult]
    /\ UNCHANGED <<workVars, bound, cur, dbVars, rateVars, kvVars, throttleVars, queueVars, histVars>>

\* try_acquire_request_permit, the rest: the script runs as one unit in the KV
\* store when it is connected; otherwise the per-process dictionary is used.
permit_eval(w) ==
    /\ pc[w] = "permit"
    /\ LET p == target[w]
           t == seen[w]
           iv == rate_limit_interval[p]
       IN IF redis_up
          THEN LET r == LuaRateLimit(t, iv, last_request[p])
                   wait_seconds == LuaNumberToIntegerReply(r.ret)
               IN /\ last_request' = [last_request EXCEPT ![p] = r.key]
                  /\ UNCHANGED mem_last_request
                  /\ IF wait_seconds = 0
                     THEN /\ result' = [result EXCEPT ![w] = Permit(TRUE, 0)]
                          /\ grants' = [grants EXCEPT ![p] = @ \cup {t}]
                     ELSE /\ result' = [result EXCEPT ![w] =
                                          Permit(FALSE, wait_seconds * TicksPerSecond)]
                          /\ UNCHANGED grants
          ELSE LET last_time == mem_last_request[w][p]
               IN IF last_time # -1 /\ last_time # 0
                     /\ t - last_time < iv * TicksPerSecond
                  THEN /\ result' = [result EXCEPT ![w] =
                                       Permit(FALSE, iv * TicksPerSecond - (t - last_time))]
                       /\ UNCHANGED <<last_request, mem_last_request, grants>>
                  ELSE /\ mem_last_request' = [mem_last_request EXCEPT ![w][p] = t]
                       /\ result' = [result EXCEPT ![w] = Permit(TRUE, 0)]
                       /\ grants' = [grants EXCEPT ![p] = @ \cup {t}]
                       /\ UNCHANGED last_request
    /\ pc' = [pc EXCEPT ![w] = "idle"]
    /\ target' = [target EXCEPT ![w] = "none"]
    /\ seen' = [seen EXCEPT ![w] = 0]
    /\ UNCHANGED <<workVars, bound, cur, dbVars, kvVars, throttleVars, queueVars, histVars, now, rate_limit_interval>>

InitRate ==
    /\ QuietDB
    /\ QuietProc
    /\ QuietThrottle
    /\ QuietQueues
    /\ init_status = status
    /\ restart_ret = "none"
    /\ create_ret = "none"
    /\ QuietLock
    /\ QuietPool
    /\ QuietFifo
    /\ QuietGraph
    /\ redis_up = TRUE
    /\ QuietNode
    /\ now = 1
    /\ rate_limit_interval \in [AIProviders -> 0..MaxInterval]
    /\ last_request = [p \in AIProviders |-> -1]
    /\ mem_last_request = [w \in Workers |-> [p \in AIProviders |-> -1]]
    /\ grants = [p \in AIProviders |-> {}]

NextRate ==
    \/ \E w \in Workers, p \in AIProviders : permit_begin(w, p)
    \/ \E w \in Workers : permit_eval(w)
    \/ Tick

\* Worker processes call try_acquire_request_permit at any time, in any
\* interleaving, while the clock runs; the KV store stays connected.
SpecRate == InitRate /\ [][NextRate]_vars

\* C5: for a provider with rate_limit_interval > 0, of the calls of
\* try_acquire_request_permit made within one window of `interval` seconds only
\* one is granted (no two grants lie less than the interval apart), and a call
\* that is not granted returns a wait greater than 0.
C5_OneGrantPerWindow ==
    /\ \A p \in AIProviders : \A g, h \in grants[p] :
          (rate_limit_interval[p] > 0 /\ g < h) =>
              h - g >= rate_limit_interval[p] * TicksPerSecond
    /\ \A w \in Workers :
          (result[w].reason = "permit" /\ ~result[w].success) => result[w].val > 0

\* ------------------------------------------ provider throttle (C6, C7, C9)
MAX_CONSECUTIVE_FAILURES == 3

\* is_suspended as process w evaluates it: the KV key when the store answers,
\* else the process's own _suspended_until entry.
is_suspended(w, p) == IF redis_up THEN suspend[p] ELSE mem_suspended[w][p]

\* reset_failures: delete the KV counter when connected, pop the process's own.
reset_failures(w, p) ==
    /\ fail_count' = IF redis_up THEN [fail_count EXCEPT ![p] = 0] ELSE fail_count
    /\ mem_fail' = [mem_fail EXCEPT ![w][p] = 0]

\* _set_suspended: the key is set in the KV store when connected, else the time
\* is kept in the process.  The import of reassign_provider_active_tasks that
\* follows raises ImportError (kg_task_worker defines no such function), which
\* is caught and logged: no queue is touched.
set_suspended(w, p) ==
    /\ IF redis_up
       THEN /\ suspend' = [suspend EXCEPT ![p] = TRUE]
            /\ UNCHANGED mem_suspended
       ELSE /\ mem_suspended' = [mem_suspended EXCEPT ![w][p] = TRUE]
            /\ UNCHANGED suspend
    /\ UNCHANGED queueVars

\* The calls of increment_failure(p) under way.  The provider a worker's AI
\* calls go to is the one it is bound to (KG_ACTIVE_PROVIDER).
InFlight(p) ==
    {w \in Workers : pc[w] \in {"inc_check", "inc_read", "inc_write", "inc_suspend", "inc_reset"}
                       /\ bound[w] = p}

\* The history counter of returned calls, kept within MaxFailCalls.
Done(n) == IF n < MaxFailCalls THEN n + 1 ELSE n

\* An AI call of the process has failed: generate_response calls increment_failure.
ai_failure(w) ==
    /\ pc[w] = "idle"
    /\ fails_done[bound[w]] + Cardinality(InFlight(bound[w])) < MaxFailCalls
    /\ pc' = [pc EXCEPT ![w] = "inc_check"]
    /\ UNCHANGED <<workVars, bound, cur, seen, target, result, dbVars, rateVars, kvVars,
                   throttleVars, queueVars, histVars>>

\* increment_failure returns to its caller.
Returned(w) ==
    /\ pc' = [pc EXCEPT ![w] = ret[w]]
    /\ ret' = [ret EXCEPT ![w] = "idle"]
    /\ seen' = [seen EXCEPT ![w] = 0]

\* increment_failure, the suspension check: an already suspended provider is
\* not counted again.
inc_check(w) ==
    /\ pc[w] = "inc_check"
    /\ LET p == bound[w]
       IN IF is_suspended(w, p)
          THEN /\ fails_done' = [fails_done EXCEPT ![p] = Done(@)]
               /\ Returned(w)
          ELSE /\ pc' = [pc EXCEPT ![w] = "inc_read"]
               /\ UNCHANGED <<fails_done, ret, seen>>
    /\ UNCHANGED <<callVars, bound, cur, target, result, dbVars, rateVars, kvVars, throttleVars, queueVars,
                   restVars, graphVars, susp_after>>

\* After the counter is known: at the threshold go on to suspend, else return.
Counted(w, p, new_count) ==
    IF new_count >= MAX_CONSECUTIVE_FAILURES
    THEN /\ pc' = [pc EXCEPT ![w] = "inc_suspend"]
         /\ seen' = [seen EXCEPT ![w] = 0]
         /\ UNCHANGED <<fails_done, ret>>
    ELSE /\ Returned(w)
         /\ fails_done' = [fails_done EXCEPT ![p] = Done(@)]

\* increment_failure, rc.get(key); without the KV store the process's own
\* counter is incremented instead.
inc_read(w) ==
    /\ pc[w] = "inc_read"
    /\ fail_count[bound[w]] <= MaxFailCalls
    /\ LET p == bound[w]
       IN IF redis_up
          THEN /\ seen' = [seen EXCEPT ![w] = fail_count[p]]
               /\ pc' = [pc EXCEPT ![w] = "inc_write"]
               /\ UNCHANGED <<mem_fail, fails_done, ret>>
          ELSE /\ mem_fail' = [mem_fail EXCEPT ![w][p] = @ + 1]
               /\ Counted(w, p, mem_fail[w][p] + 1)
    /\ UNCHANGED <<callVars, bound, cur, target, result, dbVars, rateVars, kvVars, queueVars,
                   fail_count, suspend, mem_suspended, restVars, graphVars, susp_after>>

\* increment_failure, rc.set(key, cur + 1): a separate round trip to the store
\* (RedisClient.set stores nothing and returns False when not connected).
inc_write(w) ==
    /\ pc[w] = "inc_write"
    /\ LET p == bound[w]
           new_count == seen[w] + 1
       IN /\ fail_count' = IF redis_up THEN [fail_count EXCEPT ![p] = new_count]
                           ELSE fail_count
          /\ Counted(w, p, new_count)
    /\ UNCHANGED <<callVars, bound, cur, target, result, dbVars, rateVars, kvVars, queueVars,
                   suspend, mem_fail, mem_suspended, restVars, graphVars, susp_after>>

\* increment_failure at the threshold: _set_suspended(provider_name).
inc_suspend(w) ==
    /\ pc[w] = "inc_suspend"
    /\ set_suspended(w, bound[w])
    /\ susp_after' = [susp_after EXCEPT ![bound[w]] =
                         fails_done[bound[w]] + Cardinality(InFlight(bound[w]))]
    /\ pc' = [pc EXCEPT ![w] = "inc_reset"]
    /\ UNCHANGED <<workVars, bound, cur, seen, result, target, dbVars, rateVars, kvVars, fail_count, mem_fail,
                   restVars, graphVars, fails_done>>

\* increment_failure at the threshold: reset_failures(provider_name); return (0, True).
inc_reset(w) ==
    /\ pc[w] = "inc_reset"
    /\ LET p == bound[w]
       IN /\ reset_failures(w, p)
          /\ fails_done' = [fails_done EXCEPT ![p] = Done(@)]
    /\ Returned(w)
    /\ UNCHANGED <<callVars, bound, cur, target, result, dbVars, rateVars, kvVars, queueVars, suspend, mem_suspended,
                   restVars, graphVars, susp_after>>

\* reset_failures called on its own: generate_response after a successful call.
success_reset(w) ==
    /\ pc[w] = "idle"
    /\ reset_failures(w, bound[w])
    /\ fails_done' = [fails_done EXCEPT ![bound[w]] = 0]
    /\ UNCHANGED <<procVars, dbVars, rateVars, kvVars, queueVars, suspend, mem_suspended,
                   restVars, graphVars, susp_after>>

\* The TTL of the suspension key runs out: the KV store drops the key.
suspend_key_expire(p) ==
    /\ suspend[p]
    /\ suspend' = [suspend EXCEPT ![p] = FALSE]
    /\ fails_done' = [fails_done EXCEPT ![p] = 0]
    /\ UNCHANGED <<procVars, dbVars, rateVars, kvVars, queueVars, fail_count, mem_fail,
                   mem_suspended, restVars, graphVars, susp_after>>

\* clear_suspension: delete the key when connected, pop the process's own entry.
clear_suspension(w, p) ==
    /\ pc[w] = "idle"
    /\ suspend' = IF redis_up THEN [suspend EXCEPT ![p] = FALSE] ELSE suspend
    /\ mem_suspended' = [mem_suspended EXCEPT ![w][p] = FALSE]
    /\ fails_done' = [fails_done EXCEPT ![p] = 0]
    /\ UNCHANGED <<procVars, dbVars, rateVars, kvVars, queueVars, fail_count, mem_fail,
                   restVars, graphVars, susp_after>>

InitFail ==
    /\ QuietDB
    /\ pc = [w \in Workers |-> "idle"]
    /\ bound \in [Workers -> AIProviders]
    /\ cur = [w \in Workers |-> 0]
    /\ seen = [w \in Workers |-> 0]
    /\ result = [w \in Workers |-> NoResult]
    /\ target = [w \in Workers |-> "none"]
    /\ QuietWork
    /\ QuietRate
    /\ QuietThrottle
    /\ QuietQueues
    /\ init_status = status
    /\ restart_ret = "none"
    /\ create_ret = "none"
    /\ QuietLock
    /\ QuietPool
    /\ QuietFifo
    /\ QuietGraph
    /\ redis_up = TRUE
    /\ QuietNode

NextFail ==
    \/ \E w \in Workers : ai_failure(w)
    \/ \E w \in Workers : inc_check(w)
    \/ \E w \in Workers : inc_read(w)
    \/ \E w \in Workers : inc_write(w)
    \/ \E w \in Workers : inc_suspend(w)
    \/ \E w \in Workers : inc_reset(w)
    \/ \E w \in Workers : success_reset(w)
    \/ \E p \in AIProviders : suspend_key_expire(p)

\* Worker processes report failures and successes of their AI calls in any
\* interleaving; the KV store stays connected.
SpecFail == InitFail /\ [][NextFail]_vars

\* C6: once three increment_failure(p) calls have returned with no
\* reset_failures(p) between them, p is suspended and its counter is 0; and
\* increment_failure suspends p only after at least three failures since the
\* last reset.
C6_ThreeFailuresSuspend ==
    \A p \in AIProviders :
        /\ fails_done[p] >= MAX_CONSECUTIVE_FAILURES => (suspend[p] /\ fail_count[p] = 0)
        /\ susp_after[p] # -1 => susp_after[p] >= MAX_CONSECUTIVE_FAILURES

\* ------------------------------------------- suspension and queues (C7, C9)
\* suspend_provider: the public entry to _set_suspended.
suspend_provider(w, p) ==
    /\ pc[w] = "idle"
    /\ set_suspended(w, p)
    /\ UNCHANGED <<procVars, dbVars, rateVars, kvVars, fail_count, mem_fail, histVars>>

\* The time kept in _suspended_until of a process passes.
mem_suspended_expire(w, p) ==
    /\ mem_suspended[w][p]
    /\ mem_suspended' = [mem_suspended EXCEPT ![w][p] = FALSE]
    /\ UNCHANGED <<procVars, dbVars, rateVars, kvVars, queueVars, fail_count, suspend,
                   mem_fail, histVars>>

\* enqueue_task: RPUSH of the reference onto kg:ai_queue:<p>; nothing is pushed
\* (and False returned) when the KV store does not answer.
enqueue_task(t, p) ==
    /\ Len(queue[p]) < MaxQueueLen
    /\ queue' = IF redis_up THEN [queue EXCEPT ![p] = Append(@, t)] ELSE queue
    /\ UNCHANGED <<main_queue, active_batch, batch_size, procVars, dbVars, rateVars, kvVars,
                   throttleVars, histVars>>

InitSuspend ==
    /\ QuietDB
    /\ QuietProc
    /\ QuietRate
    /\ QuietThrottle
    /\ QuietQueues
    /\ init_status = status
    /\ restart_ret = "none"
    /\ create_ret = "none"
    /\ QuietLock
    /\ QuietPool
    /\ QuietFifo
    /\ QuietGraph
    /\ redis_up = TRUE
    /\ QuietNode

NextSuspend ==
    \/ \E w \in Workers, p \in AIProviders : suspend_provider(w, p)
    \/ \E w \in Workers, p \in AIProviders : clear_suspension(w, p)
    \/ \E p \in AIProviders : suspend_key_expire(p)
    \/ \E w \in Workers, p \in AIProviders : mem_suspended_expire(w, p)
    \/ \E t \in Tasks, p \in AIProviders : enqueue_task(t, p)
    \/ kv_disconnect
    \/ kv_reconnect

\* Providers are suspended and released, their queues fill, suspensions run
\* out, and the KV store comes and goes.
SpecSuspend == InitSuspend /\ [][NextSuspend]_vars

\* C7: in every state is_suspended(p), whichever process evaluates it, is true
\* exactly when the suspension key of p exists in the KV store.
C7_SuspendedIffKey ==
    \A w \in Workers, p \in AIProviders : is_suspended(w, p) <=> suspend[p]

\* Occurrences of task t in a list.
Count(t, q) == Cardinality({i \in 1..Len(q) : q[i] = t})

\* Occurrences of task t in the three lists of provider p.
Queued(t, p) == Count(t, queue[p]) + Count(t, main_queue[p]) + Count(t, active_batch[p])

SuspendedSomewhere(p) == suspend[p] \/ \E w \in Workers : mem_suspended[w][p]

\* C9: the step by which provider p becomes suspended leaves the queues of p
\* empty, and every reference that was queued for p is afterwards queued for
\* another provider, none lost and none duplicated.
C9_SuspendMigratesQueue ==
    [][\A p \in AIProviders :
          (~SuspendedSomewhere(p) /\ SuspendedSomewhere(p)') =>
              /\ queue'[p] = <<>> /\ main_queue'[p] = <<>> /\ active_batch'[p] = <<>>
              /\ \A t \in Tasks :
                    LET before == Queued(t, "p1") + Queued(t, "p2") + Queued(t, "rules")
                        after == Queued(t, "p1")' + Queued(t, "p2")' + Queued(t, "rules")'
                    IN before = after]_vars

\* ------------------------------------------------ load_next_batch (C4)
\* The reply of load_next_batch: the number of references it moved.
Loaded(n) == [success |-> n > 0, reason |-> "load_next_batch", val |-> n]

\* The sequences over S without repetition.
RECURSIVE SeqsNoDup(_)
SeqsNoDup(S) ==
    {<<>>} \cup UNION {{<<x>> \o q : q \in SeqsNoDup(S \ {x})} : x \in S}

Range(q) == {q[i] : i \in 1..Len(q)}

\* load_next_batch, returning: the loop is over.
lb_return(w, n) ==
    /\ result' = [result EXCEPT ![w] = Loaded(n)]
    /\ pc' = [pc EXCEPT ![w] = "done"]
    /\ seen' = [seen EXCEPT ![w] = 0]

\* load_next_batch, up to the emptiness check: llen(active_batch_key) > 0 returns 0.
lb_check(w, p) ==
    /\ pc[w] = "idle"
    /\ target' = [target EXCEPT ![w] = p]
    /\ IF Len(active_batch[p]) > 0
       THEN lb_return(w, 0)
       ELSE /\ pc' = [pc EXCEPT ![w] = "lb_pop"]
            /\ seen' = [seen EXCEPT ![w] = 0]
            /\ UNCHANGED result
    /\ UNCHANGED <<workVars, bound, cur, dbVars, rateVars, kvVars, throttleVars, queueVars, histVars>>

\* load_next_batch, one loop turn, first half: lpop(main_queue_key); an empty
\* main queue ends the loop.
lb_pop(w) ==
    /\ pc[w] = "lb_pop"
    /\ LET p == target[w]
       IN IF main_queue[p] = <<>>
          THEN /\ lb_return(w, seen[w])
               /\ UNCHANGED <<cur, main_queue>>
          ELSE /\ cur' = [cur EXCEPT ![w] = Head(main_queue[p])]
               /\ main_queue' = [main_queue EXCEPT ![p] = Tail(@)]
               /\ pc' = [pc EXCEPT ![w] = "lb_push"]
               /\ UNCHANGED <<seen, result>>
    /\ UNCHANGED <<workVars, bound, target, queue, active_batch, batch_size, dbVars, rateVars, kvVars,
                   throttleVars, histVars>>

\* Mutant: the reference is pushed on the right end of the active batch.
lb_push_Right(w) ==
    /\ pc[w] = "lb_push"
    /\ LET p == target[w]
           loaded == seen[w] + 1
       IN /\ active_batch' = [active_batch EXCEPT ![p] = @ \o <<cur[w]>>]
          /\ cur' = [cur EXCEPT ![w] = 0]
          /\ IF loaded >= batch_size
             THEN lb_return(w, loaded)
             ELSE /\ seen' = [seen EXCEPT ![w] = loaded]
                  /\ pc' = [pc EXCEPT ![w] = "lb_pop"]
                  /\ UNCHANGED result
    /\ UNCHANGED <<workVars, bound, target, queue, main_queue, batch_size, dbVars, rateVars, kvVars,
                   throttleVars, histVars>>

\* load_next_batch, one loop turn, second half: lpush(active_batch_key, item);
\* after batch_size turns the loop is over.
lb_push(w) ==
    /\ pc[w] = "lb_push"
    /\ LET p == target[w]
           loaded == seen[w] + 1
       IN /\ active_batch' = [active_batch EXCEPT ![p] = <<cur[w]>> \o @]
          /\ cur' = [cur EXCEPT ![w] = 0]
          /\ IF loaded >= batch_size
             THEN lb_return(w, loaded)
             ELSE /\ seen' = [seen EXCEPT ![w] = loaded]
                  /\ pc' = [pc EXCEPT ![w] = "lb_pop"]
                  /\ UNCHANGED result
    /\ UNCHANGED <<workVars, bound, target, queue, main_queue, batch_size, dbVars, rateVars, kvVars,
                   throttleVars, histVars>>

\* The main queues hold any references, each at most once; the active batches
\* are empty; every caller passes the same batch_size.
InitBatch ==
    /\ QuietDB
    /\ QuietProc
    /\ QuietRate
    /\ QuietThrottle
    /\ init_status = status
    /\ restart_ret = "none"
    /\ create_ret = "none"
    /\ QuietLock
    /\ QuietPool
    /\ QuietFifo
    /\ QuietGraph
    /\ redis_up = TRUE
    /\ QuietNode
    /\ queue = [p \in Providers |-> <<>>]
    /\ active_batch = [p \in Providers |-> <<>>]
    /\ main_queue \in [Providers -> SeqsNoDup(Tasks)]
    /\ \A p, q \in Providers : p # q => Range(main_queue[p]) \cap Range(main_queue[q]) = {}
    /\ batch_size \in 1..MaxBatch

NextBatch ==
    \/ \E w \in Workers, p \in Providers : lb_check(w, p)
    \/ \E w \in Workers : lb_pop(w)
    \/ \E w \in Workers : lb_push(w)

\* K processes each call load_next_batch once, concurrently.
SpecBatch == InitBatch /\ [][NextBatch]_vars

\* The calls of load_next_batch(p) that have returned.
BatchDone(p) == {w \in Workers : pc[w] = "done" /\ target[w] = p}

\* C4: of the load_next_batch(p, B) calls made concurrently while the active
\* batch of p is empty and its main queue is not, only one moves references (at
\* most B) and returns their number, the others return 0; the active batch
\* never holds more than B references.
C4_OneLoaderPerBatch ==
    \A p \in Providers :
        /\ Len(active_batch[p]) <= batch_size
        /\ Cardinality({w \in BatchDone(p) : result[w].val > 0}) <= 1
        /\ \A w \in BatchDone(p) : result[w].val <= batch_size


(***************************************************************************)
(* The task worker, the guard thread and the task service: a worker pops a *)
(* task reference from the queue of its provider, starts the task and      *)
(* extracts its pending chapters one by one.                               *)
(***************************************************************************)

\* What neither the workers nor the guard nor the task service touch.
loopEnv == <<bound, seen, result, target, row_lock, use_ai, retryCfg, rateVars, kvVars, main_queue,
             active_batch, batch_size, restVars, susp_after, mem_suspended>>
workEnv == <<loopEnv, graphVars>>

chapVars == <<chapter_status, completed_chapters, failed_chapters, error_message, rowVars,
              totalVars>>
failVars == <<fail_count, suspend, mem_fail, fails_done>>

ChapterSeq == [i \in 1..NumChapters |-> i]

\* The number of chapter rows of one task that have status s.
CountSt(cs, s) == Cardinality({c \in Chapters : cs[c] = s})

get_pending_chapters(t) ==
    SelectSeq(ChapterSeq, LAMBDA c : chapter_status[t][c] = "pending")

\* The chapter rows a task has: create_task makes one row for each chapter it
\* has found, and no row is added or deleted later ("absent" = no such row).
Rows(t) == {c \in Chapters : chapter_status[t][c] # "absent"}

\* KnowledgeGraphTask.total_chapters, written by create_task alone.
total_chapters(t) == Cardinality(Rows(t))

\* is_task_fully_completed: false for a task without rows, else whether every
\* row is completed.
is_task_fully_completed(t) ==
    /\ Rows(t) # {}
    /\ \A c \in Rows(t) : chapter_status[t][c] = "completed"

\* update_chapter_status: the row is written, the counters of the task are
\* recounted from the rows, a failure with a message is copied to the task.
update_chapter_status(t, c, st, err) ==
    LET cs == [chapter_status[t] EXCEPT ![c] = st]
    IN /\ chapter_status' = [chapter_status EXCEPT ![t] = cs]
       /\ completed_chapters' = [completed_chapters EXCEPT ![t] = CountSt(cs, "completed")]
       /\ failed_chapters' = [failed_chapters EXCEPT ![t] = CountSt(cs, "failed")]
       /\ error_message' = IF st = "failed" /\ err
                           THEN [error_message EXCEPT ![t] = TRUE]
                           ELSE error_message
       /\ chapter_error' = IF err THEN [chapter_error EXCEPT ![t][c] = TRUE]
                           ELSE chapter_error
       /\ UNCHANGED <<entities_extracted, relations_extracted, totalVars>>

\* update_task_status: the status is written whatever the old one was;
\* 'completed' recounts the completed chapters, 'failed' counts the pending
\* chapters as failed ones; the totals are written when they are passed
\* (-1 stands for None).
update_task_status_totals(t, st, entity_count, relation_count) ==
    /\ status' = [status EXCEPT ![t] = st]
    /\ retry_scheduled_at' =
          IF st = "failed" /\ auto_retry_enabled[t]
          THEN [retry_scheduled_at EXCEPT ![t] = now + RetryTicks]
          ELSE retry_scheduled_at
    /\ completed_chapters' =
          IF st = "completed"
          THEN [completed_chapters EXCEPT ![t] = CountSt(chapter_status[t], "completed")]
          ELSE completed_chapters
    /\ failed_chapters' =
          IF st = "failed"
          THEN [failed_chapters EXCEPT ![t] = CountSt(chapter_status[t], "pending")
                                               + CountSt(chapter_status[t], "failed")]
          ELSE failed_chapters
    /\ total_entities' = IF entity_count # -1
                          THEN [total_entities EXCEPT ![t] = entity_count]
                          ELSE total_entities
    /\ total_relations' = IF relation_count # -1
                           THEN [total_relations EXCEPT ![t] = relation_count]
                           ELSE total_relations
    /\ UNCHANGED <<chapter_status, error_message, rowVars>>

update_task_status(t, st) == update_task_status_totals(t, st, -1, -1)

\* process_chapter_with_transaction_safety: the chapter row becomes completed
\* or failed with the outcome of the graph write, the counters are recounted.
process_chapter_with_transaction_safety(t, c, entities_count, relations_count, neo4j_success) ==
    LET cs == [chapter_status[t] EXCEPT ![c] = IF neo4j_success THEN "completed" ELSE "failed"]
    IN /\ chapter_status' = [chapter_status EXCEPT ![t] = cs]
       /\ chapter_error' = [chapter_error EXCEPT ![t][c] = ~neo4j_success]
       /\ entities_extracted' = IF neo4j_success
                                 THEN [entities_extracted EXCEPT ![t][c] = entities_count]
                                 ELSE entities_extracted
       /\ relations_extracted' = IF neo4j_success
                                  THEN [relations_extracted EXCEPT ![t][c] = relations_count]
                                  ELSE relations_extracted
       /\ completed_chapters' = [completed_chapters EXCEPT ![t] = CountSt(cs, "completed")]
       /\ failed_chapters' = [failed_chapters EXCEPT ![t] = CountSt(cs, "failed")]
       /\ total_entities' = IF neo4j_success
                             THEN [total_entities EXCEPT ![t] = @ + entities_count]
                             ELSE total_entities
       /\ total_relations' = IF neo4j_success
                              THEN [total_relations EXCEPT ![t] = @ + relations_count]
                              ELSE total_relations
       /\ UNCHANGED error_message

\* build_knowledge_graph_with_task returns; the worker registers itself idle,
\* which leaves the task_id field of its hash as it is.
w_return(w) ==
    /\ pc' = [pc EXCEPT ![w] = "idle"]
    /\ cur' = [cur EXCEPT ![w] = 0]
    /\ pend' = [pend EXCEPT ![w] = <<>>]
    /\ got' = [got EXCEPT ![w] = FALSE]
    /\ begun' = [begun EXCEPT ![w] = 0]
    /\ write_error' = [write_error EXCEPT ![w] = FALSE]
    /\ extractor' = [extractor EXCEPT ![w] = "none"]
    /\ sum_entities' = [sum_entities EXCEPT ![w] = 0]
    /\ sum_relations' = [sum_relations EXCEPT ![w] = 0]

\* Worker loop: a suspended provider is not polled; brpop takes the reference
\* at the right end of the list; the worker registers the task it holds.
w_poll(w) ==
    /\ pc[w] = "idle"
    /\ ~(bound[w] # "rules" /\ is_suspended(w, bound[w]))
    /\ redis_up
    /\ queue[bound[w]] # <<>>
    /\ LET q == queue[bound[w]]
       IN /\ queue' = [queue EXCEPT ![bound[w]] = SubSeq(q, 1, Len(q) - 1)]
          /\ cur' = [cur EXCEPT ![w] = q[Len(q)]]
          /\ worker_task' = [worker_task EXCEPT ![w] = q[Len(q)]]
    /\ pc' = [pc EXCEPT ![w] = "w_start"]
    /\ UNCHANGED <<workEnv, pend, got, noteVars, ret, status, retry_scheduled_at, chapVars, failVars>>

\* build_knowledge_graph_with_task: try_start_task under the row lock.
w_start(w) ==
    /\ pc[w] = "w_start"
    /\ LockFree(cur[w])
    /\ IF status[cur[w]] \in StartRefused
       THEN /\ w_return(w)
            /\ UNCHANGED <<status, retry_scheduled_at>>
       ELSE /\ status' = [status EXCEPT ![cur[w]] = "running"]
            /\ UNCHANGED retry_scheduled_at
            /\ pc' = [pc EXCEPT ![w] = "w_pending"]
            /\ UNCHANGED <<cur, pend, got, noteVars>>
    /\ UNCHANGED <<workEnv, ret, worker_task, queue, chapVars, failVars>>

\* The pending chapters are read; with none the task is closed at once.
w_pending(w) ==
    /\ pc[w] = "w_pending"
    /\ LET t == cur[w]
           pending_chapter_ids == get_pending_chapters(t)
       IN IF pending_chapter_ids = <<>>
          THEN /\ update_task_status(t, IF is_task_fully_completed(t)
                                        THEN "completed" ELSE "failed")
               /\ w_return(w)
          ELSE /\ pend' = [pend EXCEPT ![w] = pending_chapter_ids]
               /\ pc' = [pc EXCEPT ![w] = "w_loop"]
               /\ UNCHANGED <<cur, got, noteVars, status, retry_scheduled_at, chapVars>>
    /\ UNCHANGED <<workEnv, ret, worker_task, queue, failVars>>

\* Between the read of the pending chapters and the chapter loop: the graph
\* service cannot be set up, or the task or its novel is not found; the task
\* is marked failed and the run is over.
w_setup_failed(w) ==
    /\ pc[w] = "w_loop"
    /\ begun[w] = 0
    /\ update_task_status(cur[w], "failed")
    /\ w_return(w)
    /\ UNCHANGED <<workEnv, ret, worker_task, queue, failVars>>

\* The provider get_ai_config names in a worker process: the provider the
\* process is bound to (KG_ACTIVE_PROVIDER) when that is an active AI provider;
\* for the rules process the default configuration, taken to name none.
provider_name(w) == IF bound[w] \in AIProviders THEN bound[w] ELSE "none"

Suspended(w) == provider_name(w) # "none" /\ is_suspended(w, provider_name(w))

\* Top of the chapter loop: a paused task ends the run; a suspended provider
\* pauses the task; else the chapter is marked running.
w_loop(w) ==
    /\ pc[w] = "w_loop"
    /\ LET t == cur[w]
       IN IF status[t] = "paused"
          THEN /\ w_return(w)
               /\ UNCHANGED <<status, retry_scheduled_at, chapVars, graphVars>>
          ELSE IF use_ai[t] /\ Suspended(w)
          THEN /\ update_task_status(t, "paused")
               /\ w_return(w)
               /\ UNCHANGED graphVars
          ELSE /\ update_chapter_status(t, Head(pend[w]), "running", FALSE)
               /\ create_chapter_node(ChapterNode(t, Head(pend[w])), t)
               /\ pc' = [pc EXCEPT ![w] = "w_extract"]
               /\ begun' = [begun EXCEPT ![w] = @ + 1]
               /\ write_error' = [write_error EXCEPT ![w] = FALSE]
               /\ UNCHANGED <<cur, pend, got, extractor, sumVars, status, retry_scheduled_at>>
    /\ UNCHANGED <<loopEnv, ret, worker_task, queue, failVars>>

\* Mutant: an empty AI result is not treated as a failure.
AfterExtract_NoEmptyTest(t, g) == "w_persist"

\* Where the loop body goes once the extraction is over: with AI and nothing
\* extracted the chapter is a failure, else its data is written.
AfterExtract(t, g) == IF use_ai[t] /\ ~g THEN "w_result" ELSE "w_persist"

\* extract_from_chapter: with AI a suspended provider raises provider_suspended
\* (the chapter goes back to pending, the task is paused), and without a
\* provider nothing is extracted; without AI the rules extract and may find
\* nothing.
w_extract(w) ==
    /\ pc[w] = "w_extract"
    /\ LET t == cur[w]
       IN IF use_ai[t]
          THEN IF Suspended(w)
               THEN /\ update_chapter_status(t, Head(pend[w]), "pending", FALSE)
                    /\ status' = [status EXCEPT ![t] = "paused"]
                    /\ UNCHANGED retry_scheduled_at
                    /\ w_return(w)
               ELSE /\ pc' = [pc EXCEPT ![w] = IF provider_name(w) = "none"
                                                THEN "w_result" ELSE "w_entity"]
                    /\ extractor' = [extractor EXCEPT ![w] = "ai"]
                    /\ UNCHANGED <<cur, pend, got, begun, write_error, sumVars, status, retry_scheduled_at, chapVars>>
          ELSE /\ \E found \in BOOLEAN : got' = [got EXCEPT ![w] = found]
               /\ pc' = [pc EXCEPT ![w] = "w_persist"]
               /\ extractor' = [extractor EXCEPT ![w] = "rules"]
               /\ UNCHANGED <<cur, pend, begun, write_error, sumVars, status, retry_scheduled_at, chapVars>>
    /\ UNCHANGED <<workEnv, ret, worker_task, queue, failVars>>

\* AIServiceManager.generate_response: a suspended provider is not called and
\* not counted; a successful call resets the failure counter; a failed one
\* goes through increment_failure.  yields: whether data of the call is
\* kept; onData: where the caller may go on with data, onNone: without.
generate_response(w, yields, onData, onNone) ==
    LET p == bound[w]
    IN IF is_suspended(w, p)
       THEN /\ pc' = [pc EXCEPT ![w] = onNone]
            /\ UNCHANGED <<got, ret, failVars>>
       ELSE \/ \E data \in {d \in BOOLEAN : yields \/ ~d} :
                 /\ reset_failures(w, p)
                 /\ fails_done' = [fails_done EXCEPT ![p] = 0]
                 /\ got' = [got EXCEPT ![w] = @ \/ data]
                 /\ \E nxt \in (IF data THEN onData ELSE {onNone}) :
                       pc' = [pc EXCEPT ![w] = nxt]
                 /\ UNCHANGED <<ret, suspend>>
            \/ /\ pc' = [pc EXCEPT ![w] = "inc_check"]
               /\ ret' = [ret EXCEPT ![w] = onNone]
               /\ UNCHANGED <<got, failVars>>

\* _extract_with_ai, the entity call; _analyze_protagonist follows when the
\* entities hold a character.
w_entity(w) ==
    /\ pc[w] = "w_entity"
    /\ generate_response(w, TRUE, {"w_protagonist", "w_relation"}, "w_relation")
    /\ UNCHANGED <<workEnv, cur, pend, worker_task, noteVars, queue, status, retry_scheduled_at, chapVars>>

\* _extract_with_ai, _analyze_protagonist: one more call, whose answer adds
\* no entity.
w_protagonist(w) ==
    /\ pc[w] = "w_protagonist"
    /\ generate_response(w, FALSE, {}, "w_relation")
    /\ UNCHANGED <<workEnv, cur, pend, worker_task, noteVars, queue, status, retry_scheduled_at, chapVars>>

\* _extract_with_ai, the relation call.
w_relation(w) ==
    /\ pc[w] = "w_relation"
    /\ generate_response(w, TRUE, {"w_persist"}, AfterExtract(cur[w], got[w]))
    /\ UNCHANGED <<workEnv, cur, pend, worker_task, noteVars, queue, status, retry_scheduled_at, chapVars>>

\* With AI and nothing extracted increment_failure is called for the provider.
w_result(w) ==
    /\ pc[w] = "w_result"
    /\ IF provider_name(w) = "none"
       THEN /\ pc' = [pc EXCEPT ![w] = "w_mark_failed"]
            /\ UNCHANGED ret
       ELSE /\ pc' = [pc EXCEPT ![w] = "inc_check"]
            /\ ret' = [ret EXCEPT ![w] = "w_mark_failed"]
    /\ UNCHANGED <<workEnv, cur, pend, got, worker_task, noteVars, queue, status, retry_scheduled_at, chapVars, failVars>>

\* The chapter loop goes on with the next chapter, or is over.
NextChapter(w) ==
    /\ pend' = [pend EXCEPT ![w] = Tail(@)]
    /\ got' = [got EXCEPT ![w] = FALSE]
    /\ pc' = [pc EXCEPT ![w] = IF Tail(pend[w]) = <<>> THEN "w_final" ELSE "w_loop"]
    /\ extractor' = [extractor EXCEPT ![w] = "none"]
    /\ UNCHANGED begun

\* ... and the chapter is marked failed.
w_mark_failed(w) ==
    /\ pc[w] = "w_mark_failed"
    /\ update_chapter_status(cur[w], Head(pend[w]), "failed", TRUE)
    /\ NextChapter(w)
    /\ UNCHANGED <<workEnv, cur, ret, worker_task, write_error, sumVars, queue, status,
                   retry_scheduled_at, failVars>>

\* _create_entities_and_relations: an upsert that raises is caught, logged and
\* handed to save_failed_entity_to_redis or save_failed_relation_to_redis; the
\* call raises only when that handler raises as well.  The value is whether
\* the caller sets neo4j_success.
create_entities_and_relations(upsert_raises, handler_raises) ==
    ~(upsert_raises /\ handler_raises)

\* The graph writes of the chapter, if anything was extracted (one entity and
\* one relation, created unless the upsert raises), and then
\* process_chapter_with_transaction_safety closes the chapter.
w_persist(w) ==
    /\ pc[w] = "w_persist"
    /\ \E upsert_raises \in (IF got[w] THEN BOOLEAN ELSE {FALSE}), handler_raises \in BOOLEAN :
          LET neo4j_success == create_entities_and_relations(upsert_raises, handler_raises)
              chapter_entities == IF got[w] /\ ~upsert_raises THEN 1 ELSE 0
              chapter_relations == chapter_entities
          IN /\ process_chapter_with_transaction_safety(cur[w], Head(pend[w]),
                    chapter_entities, chapter_relations, neo4j_success)
             /\ sum_entities' = [sum_entities EXCEPT ![w] = @ + chapter_entities]
             /\ sum_relations' = [sum_relations EXCEPT ![w] = @ + chapter_relations]
             /\ write_error' = [write_error EXCEPT ![w] = upsert_raises]
    /\ NextChapter(w)
    /\ UNCHANGED <<workEnv, cur, ret, worker_task, queue, status, retry_scheduled_at, failVars>>

\* After the loop: with no chapter pending the task is completed when every
\* chapter is, failed otherwise; with chapters pending it is left as it is.
w_final(w) ==
    /\ pc[w] = "w_final"
    /\ LET t == cur[w]
       IN IF get_pending_chapters(t) = <<>>
          THEN IF is_task_fully_completed(t)
               THEN update_task_status_totals(t, "completed", sum_entities[w], sum_relations[w])
               ELSE update_task_status(t, "failed")
          ELSE UNCHANGED <<status, retry_scheduled_at, chapVars>>
    /\ w_return(w)
    /\ UNCHANGED <<workEnv, ret, worker_task, queue, failVars>>

\* The providers choose_provider_for_task may return for an AI task: the active
\* providers that are not suspended and have the shortest main queue and
\* active batch together.
Usable == {p \in AIProviders : ~suspend[p]}

Backlog(p) == Len(main_queue[p]) + Len(active_batch[p])

choose_provider_for_ai_task ==
    IF Usable = {}
    THEN {"rules"}
    ELSE {p \in Usable : \A o \in Usable : Backlog(p) <= Backlog(o)}

\* The legacy queues after the guard has handled the created tasks 1..k.
RECURSIVE AutoQueue(_, _)
AutoQueue(k, f) ==
    IF k = 0
    THEN queue
    ELSE LET q == AutoQueue(k - 1, f)
         IN IF status[k] = "created" /\ redis_up
            THEN [q EXCEPT ![f[k]] = Append(@, k)]
            ELSE q

\* Guard, _auto_start_created_tasks: every task found in status created is
\* put on the queue of a provider, whether or not it is queued already.
guard_auto_start ==
    /\ \E f \in [Tasks -> Providers] :
          /\ \A t \in Tasks :
                f[t] \in IF status[t] # "created" THEN {"rules"}
                         ELSE IF use_ai[t] THEN choose_provider_for_ai_task
                         ELSE {"rules"}
          /\ queue' = AutoQueue(NumTasks, f)
    /\ \A p \in Providers : Len(queue'[p]) <= MaxQueueLen
    /\ UNCHANGED <<workEnv, pc, cur, workVars, status, retry_scheduled_at, chapVars, failVars>>

\* The tasks get_worker_stats reports as active: the task_id of the hash of
\* every process that passes the health check.  The hash a killed process left
\* fails the pid check of an unnamed node and is deleted; on a named node it
\* passes as long as the heartbeat of the node is there.
active_task_ids ==
    IF redis_up
    THEN {worker_task[w] : w \in Workers}
            \cup (IF node_named THEN {orphan[w] : w \in Workers} ELSE {})
    ELSE {}

ZombieStatus(t) ==
    IF completed_chapters[t] >= total_chapters(t) /\ total_chapters(t) > 0 THEN "completed"
    ELSE IF error_message[t] \/ failed_chapters[t] > 0 THEN "failed"
    ELSE "created"

\* Guard, _check_zombie_tasks: a task in status running that no worker names
\* is reclassified from its counters.
guard_zombie ==
    /\ status' = [t \in Tasks |->
                     IF status[t] = "running" /\ t \notin active_task_ids
                     THEN ZombieStatus(t) ELSE status[t]]
    /\ UNCHANGED <<workEnv, pc, cur, workVars, queue, retry_scheduled_at, chapVars, failVars>>

\* The tasks the API is called for: the task that is not over yet.
ApiTasks == {1}

\* The task service as the API calls it.
pause_task(t) ==
    /\ update_task_status(t, "paused")
    /\ UNCHANGED <<workEnv, pc, cur, workVars, queue, failVars>>

resume_task(t) ==
    /\ update_task_status(t, "running")
    /\ UNCHANGED <<workEnv, pc, cur, workVars, queue, failVars>>

cancel_task(t) ==
    /\ update_task_status(t, "cancelled")
    /\ UNCHANGED <<workEnv, pc, cur, workVars, queue, failVars>>

\* retry_failed_chapters: the failed chapters, or with none the pending ones,
\* are set pending; a failed or paused task becomes paused.
retry_failed_rows(t) ==
    LET failed == {c \in Chapters : chapter_status[t][c] = "failed"}
        originally_failed_count == Cardinality(failed)
    IN /\ chapter_status' = [chapter_status EXCEPT ![t] =
                                [c \in Chapters |-> IF c \in failed THEN "pending" ELSE @[c]]]
       /\ IF status[t] \in {"failed", "paused"}
          THEN /\ status' = [status EXCEPT ![t] = "paused"]
               /\ failed_chapters' =
                     IF failed_chapters[t] > 0 /\ originally_failed_count > 0
                     THEN [failed_chapters EXCEPT ![t] =
                              IF @ > originally_failed_count
                              THEN @ - originally_failed_count ELSE 0]
                     ELSE failed_chapters
               /\ error_message' = [error_message EXCEPT ![t] = FALSE]
          ELSE UNCHANGED <<status, failed_chapters, error_message>>
       /\ UNCHANGED <<completed_chapters, rowVars, totalVars>>

retry_failed_chapters(t) ==
    /\ retry_failed_rows(t)
    /\ UNCHANGED <<workEnv, pc, cur, workVars, queue, retry_scheduled_at, failVars>>

\* The statuses restart_task accepts.
Restartable == {"completed", "failed", "cancelled"}

\* Mutant: the totals of the task are not reset.
restart_counters_KeepTotals(t) ==
    /\ completed_chapters' = [completed_chapters EXCEPT ![t] = 0]
    /\ failed_chapters' = [failed_chapters EXCEPT ![t] = 0]
    /\ error_message' = [error_message EXCEPT ![t] = FALSE]
    /\ UNCHANGED totalVars

\* restart_task, step 3: the counters of the task are reset.
restart_counters(t) ==
    /\ completed_chapters' = [completed_chapters EXCEPT ![t] = 0]
    /\ failed_chapters' = [failed_chapters EXCEPT ![t] = 0]
    /\ error_message' = [error_message EXCEPT ![t] = FALSE]
    /\ total_entities' = [total_entities EXCEPT ![t] = 0]
    /\ total_relations' = [total_relations EXCEPT ![t] = 0]

\* restart_task: a task in another status raises ValueError, the transaction is
\* rolled back and nothing is changed (the call returns False); else the nodes
\* of the task are cleaned out of the graph (a failure of that is logged and
\* passed over), the task is set created, its counters are reset, every
\* chapter row is reset and the call returns True.
restart_task(t) ==
    /\ IF status[t] \notin Restartable
       THEN /\ restart_ret' = "false"
            /\ UNCHANGED <<status, chapVars, graphVars>>
       ELSE /\ \E cleaned \in BOOLEAN :
                   IF cleaned THEN delete_task_nodes_by_task_id(t) ELSE UNCHANGED graphVars
            /\ restart_ret' = "true"
            /\ status' = [status EXCEPT ![t] = "created"]
            /\ restart_counters(t)
            /\ chapter_status' = [chapter_status EXCEPT ![t] =
                                     [c \in Chapters |-> IF c \in Rows(t) THEN "pending" ELSE @[c]]]
            /\ chapter_error' = [chapter_error EXCEPT ![t] = [c \in Chapters |-> FALSE]]
            /\ entities_extracted' = [entities_extracted EXCEPT ![t] = [c \in Chapters |-> 0]]
            /\ relations_extracted' = [relations_extracted EXCEPT ![t] = [c \in Chapters |-> 0]]
    /\ UNCHANGED <<bound, seen, result, target, row_lock, use_ai, retryCfg, retry_scheduled_at,
                   rateVars, redis_up, nodeVars, queueVars, init_status, create_ret, lockVars, fifoVars,
                   poolVars, susp_after,
                   mem_suspended, pc, cur, workVars, failVars>>

\* One worker process for each provider, rules included: the default.
Deployment == [w \in Workers |-> IF w = 1 THEN "p1" ELSE IF w = 2 THEN "p2" ELSE "rules"]

\* Task 1 has just been created; the other tasks were completed before.
WorkBase ==
    /\ status = [t \in Tasks |-> IF t = 1 THEN "created" ELSE "completed"]
    /\ row_lock = [t \in Tasks |-> 0]
    /\ chapter_status = [t \in Tasks |-> [c \in Chapters |->
                            IF t = 1 THEN "pending" ELSE "completed"]]
    /\ completed_chapters = [t \in Tasks |-> IF t = 1 THEN 0 ELSE NumChapters]
    /\ failed_chapters = [t \in Tasks |-> 0]
    /\ error_message = [t \in Tasks |-> FALSE]
    /\ QuietCounts
    /\ use_ai \in [Tasks -> BOOLEAN]
    /\ pc = [w \in Workers |-> "idle"]
    /\ bound = Deployment
    /\ cur = [w \in Workers |-> 0]
    /\ seen = [w \in Workers |-> 0]
    /\ result = [w \in Workers |-> NoResult]
    /\ target = [w \in Workers |-> "none"]
    /\ QuietWork
    /\ QuietRate
    /\ QuietThrottle
    /\ QuietQueues
    /\ init_status = status
    /\ restart_ret = "none"
    /\ create_ret = "none"
    /\ QuietLock
    /\ QuietPool
    /\ QuietFifo
    /\ GraphOf(Tasks \ {1})
    /\ redis_up = TRUE

\* ... and automatic retry is off.
WorkStart ==
    /\ WorkBase
    /\ QuietRetry

InitWork ==
    /\ WorkStart
    /\ QuietNode

\* The steps of a task run that need no AI provider.
RulesStep(w) ==
    \/ w_poll(w)
    \/ w_start(w)
    \/ w_pending(w)
    \/ w_setup_failed(w)
    \/ w_loop(w)
    \/ w_extract(w)
    \/ w_persist(w)
    \/ w_final(w)

\* The steps of the AI extraction of a chapter.
AIStep(w) ==
    \/ w_entity(w)
    \/ w_protagonist(w)
    \/ w_relation(w)
    \/ w_result(w)
    \/ w_mark_failed(w)
    \/ inc_check(w)
    \/ inc_read(w)
    \/ inc_write(w)
    \/ inc_suspend(w)
    \/ inc_reset(w)

WorkerStep(w) == RulesStep(w) \/ AIStep(w)

\* ------------------------------------------- task status and chapters (C2)
\* The tasks are rule-extraction tasks; the API acts on any task at any time.
InitTask ==
    /\ InitWork
    /\ \A t \in Tasks : ~use_ai[t]

NextTask ==
    \/ \E w \in Workers : RulesStep(w)
    \/ guard_auto_start
    \/ guard_zombie
    \/ \E t \in ApiTasks : pause_task(t)
    \/ \E t \in ApiTasks : resume_task(t)
    \/ \E t \in ApiTasks : cancel_task(t)
    \/ \E t \in ApiTasks : retry_failed_chapters(t)
    \/ \E t \in ApiTasks : restart_task(t)

SpecTask == InitTask /\ [][NextTask]_vars

\* C2: a task has status completed if and only if every chapter row of the
\* task has status completed.
C2_CompletedIffAllChapters ==
    \A t \in Tasks :
        status[t] = "completed" <=> \A c \in Chapters : chapter_status[t][c] = "completed"

\* ------------------------------------------ guard and worker queues (C3)
NextGuard ==
    \/ \E w \in Workers : WorkerStep(w)
    \/ \E p \in AIProviders : suspend_key_expire(p)
    \/ guard_auto_start
    \/ guard_zombie

\* Workers and guard alone: nobody calls the API.
SpecGuard == InitWork /\ [][NextGuard]_vars

\* The workers that hold the reference of task t: popped, run not yet over.
Claimed(t) == {w \in Workers : pc[w] # "idle" /\ cur[w] = t}

\* C3: the reference of a task occurs at most once in all the queues of all
\* providers and the claims of all workers together.
C3_OneReference ==
    \A t \in Tasks :
        Queued(t, "p1") + Queued(t, "p2") + Queued(t, "rules")
            + Cardinality(Claimed(t)) <= 1

\* --------------------------------- extraction under suspension (C8)
\* Two worker processes for provider p1 (KG_WORKERS_PER_PROVIDER = 2), the
\* third for p2.
DeploymentPair == [w \in Workers |-> IF w <= 2 THEN "p1" ELSE "p2"]

\* Every task is an AI task in status created, and its reference is on the
\* queue of p1: task 1 has just been created, the others were put back to
\* created by the zombie check after their first chapter had been completed.
InitExtract ==
    /\ status = [t \in Tasks |-> "created"]
    /\ row_lock = [t \in Tasks |-> 0]
    /\ chapter_status = [t \in Tasks |-> [c \in Chapters |->
                            IF t # 1 /\ c = 1 THEN "completed" ELSE "pending"]]
    /\ completed_chapters = [t \in Tasks |-> IF t # 1 THEN 1 ELSE 0]
    /\ failed_chapters = [t \in Tasks |-> 0]
    /\ error_message = [t \in Tasks |-> FALSE]
    /\ use_ai = [t \in Tasks |-> TRUE]
    /\ QuietRetry
    /\ QuietCounts
    /\ pc = [w \in Workers |-> "idle"]
    /\ bound = DeploymentPair
    /\ cur = [w \in Workers |-> 0]
    /\ seen = [w \in Workers |-> 0]
    /\ result = [w \in Workers |-> NoResult]
    /\ target = [w \in Workers |-> "none"]
    /\ QuietWork
    /\ QuietRate
    /\ QuietThrottle
    /\ queue = [p \in Providers |-> IF p = "p1" THEN [i \in 1..NumTasks |-> i] ELSE <<>>]
    /\ main_queue = [p \in Providers |-> <<>>]
    /\ active_batch = [p \in Providers |-> <<>>]
    /\ batch_size = 1
    /\ init_status = status
    /\ restart_ret = "none"
    /\ create_ret = "none"
    /\ QuietLock
    /\ QuietPool
    /\ QuietFifo
    /\ graph_has = [n \in GraphNodes |-> n = 1 /\ NumTasks > 1]
    /\ graph_task_id = [n \in GraphNodes |->
                           IF n = 1 THEN [i \in 1..(NumTasks - 1) |-> i + 1] ELSE <<>>]
    /\ redis_up = TRUE
    /\ QuietNode

NextExtract ==
    \/ \E w \in Workers : WorkerStep(w)
    \/ \E p \in AIProviders : suspend_key_expire(p)

SpecExtract == InitExtract /\ [][NextExtract]_vars

\* C8: no step of a worker bound to provider p sets a chapter row to
\* completed while the suspension key of p exists.
C8_NoCompletionWhileSuspended ==
    [][\A w \in Workers :
          (/\ pc[w] = "w_persist"
           /\ pc'[w] # "w_persist"
           /\ chapter_status[cur[w]][Head(pend[w])] # "completed"
           /\ chapter_status'[cur[w]][Head(pend[w])] = "completed")
              => ~suspend[bound[w]]]_vars

\* ------------------------------------- resumption after suspension (C10)
\* The worker loops and the guard loop never stop, and the TTL of a
\* suspension key runs out.
FairLive ==
    /\ \A w \in Workers : WF_vars(WorkerStep(w))
    /\ \A p \in AIProviders : WF_vars(suspend_key_expire(p))
    /\ WF_vars(guard_auto_start)
    /\ WF_vars(guard_zombie)

SpecLive == InitWork /\ [][NextGuard]_vars /\ FairLive

\* C10: a task paused by a worker because its provider was suspended is
\* running again later on (nobody but the workers pauses a task here).
C10_PausedResumes ==
    \A t \in Tasks : (status[t] = "paused") ~> (status[t] = "running")

\* ------------------------------------ a killed worker process (C11, C12)
\* The guard loop starts the created tasks every 5th round and checks for
\* zombie tasks every 20th.
AUTO_START_EVERY == 5
ZOMBIE_EVERY == 20

\* Guard rounds counted after a kill.
MaxAge == 3

\* A worker process is killed in the middle of a run: what it held in memory
\* is gone, the hash it registered stays in the KV store.
kill(w) ==
    /\ kill_age = -1
    /\ pc[w] \notin {"idle", "dead"}
    /\ pc' = [pc EXCEPT ![w] = "dead"]
    /\ orphan' = [orphan EXCEPT ![w] = worker_task[w]]
    /\ worker_task' = [worker_task EXCEPT ![w] = 0]
    /\ kill_age' = 0
    /\ cur' = [cur EXCEPT ![w] = 0]
    /\ pend' = [pend EXCEPT ![w] = <<>>]
    /\ got' = [got EXCEPT ![w] = FALSE]
    /\ ret' = [ret EXCEPT ![w] = "idle"]
    /\ begun' = [begun EXCEPT ![w] = 0]
    /\ write_error' = [write_error EXCEPT ![w] = FALSE]
    /\ extractor' = [extractor EXCEPT ![w] = "none"]
    /\ sum_entities' = [sum_entities EXCEPT ![w] = 0]
    /\ sum_relations' = [sum_relations EXCEPT ![w] = 0]
    /\ UNCHANGED <<bound, seen, result, target, dbVars, rateVars, redis_up, node_named, loop_count,
                   throttleVars, queueVars, histVars>>

\* The hash of a killed process expires (one hour after its last registration).
orphan_expire(w) ==
    /\ orphan[w] # 0
    /\ orphan' = [orphan EXCEPT ![w] = 0]
    /\ UNCHANGED <<dbVars, procVars, rateVars, redis_up, node_named, loop_count, kill_age,
                   throttleVars, queueVars, histVars>>

\* One round of the guard loop: start_kg_task_workers starts a process for
\* every provider that lacks one, then every 5th round
\* _auto_start_created_tasks and every 20th round _check_zombie_tasks.
guard_round ==
    /\ loop_count' = (loop_count + 1) % ZOMBIE_EVERY
    /\ pc' = [w \in Workers |-> IF pc[w] = "dead" THEN "idle" ELSE pc[w]]
    /\ IF loop_count' % AUTO_START_EVERY = 0
       THEN /\ \E f \in [Tasks -> Providers] :
                  /\ \A t \in Tasks :
                        f[t] \in IF status[t] # "created" THEN {"rules"}
                                 ELSE IF use_ai[t] THEN choose_provider_for_ai_task
                                 ELSE {"rules"}
                  /\ queue' = AutoQueue(NumTasks, f)
            /\ \A p \in Providers : Len(queue'[p]) <= MaxQueueLen
       ELSE UNCHANGED queue
    /\ IF loop_count' % ZOMBIE_EVERY = 0
       THEN /\ status' = [t \in Tasks |->
                             IF status[t] = "running" /\ t \notin active_task_ids
                             THEN ZombieStatus(t) ELSE status[t]]
            /\ UNCHANGED retry_scheduled_at
            /\ orphan' = IF redis_up /\ ~node_named
                         THEN [w \in Workers |-> 0] ELSE orphan
       ELSE UNCHANGED <<status, retry_scheduled_at, orphan>>
    /\ kill_age' = IF kill_age >= 0 /\ kill_age < MaxAge THEN kill_age + 1 ELSE kill_age
    /\ UNCHANGED <<bound, cur, seen, result, target, workVars, row_lock, taskVars, rateVars,
                   redis_up, node_named, throttleVars, main_queue, active_batch, batch_size,
                   histVars>>

\* Rule-extraction tasks on a node with or without a name; the guard thread
\* has run its checks at start-up.
InitKill ==
    /\ WorkStart
    /\ \A t \in Tasks : ~use_ai[t]
    /\ orphan = [w \in Workers |-> 0]
    /\ node_named \in BOOLEAN
    /\ loop_count = 0
    /\ kill_age = -1

NextKill ==
    \/ \E w \in Workers : RulesStep(w)
    \/ \E w \in Workers : kill(w)
    \/ \E w \in Workers : orphan_expire(w)
    \/ guard_round

SpecKill == InitKill /\ [][NextKill]_vars

\* The worker loops and the guard loop never stop, the TTL of a hash runs out.
FairKill ==
    /\ \A w \in Workers : WF_vars(RulesStep(w))
    /\ \A w \in Workers : WF_vars(orphan_expire(w))
    /\ WF_vars(guard_round)

SpecKillLive == InitKill /\ [][NextKill]_vars /\ FairKill

\* A chapter row in status running that no live worker process is working on.
Orphaned(t, c) ==
    /\ chapter_status[t][c] = "running"
    /\ \A w \in Workers : ~(cur[w] = t /\ pc[w] \notin {"idle", "dead"})

\* C11: a chapter left in status running by a killed worker process is
\* processed again and reaches status completed.
C11_KilledChapterCompletes ==
    \A t \in Tasks : \A c \in Chapters :
        Orphaned(t, c) ~> (chapter_status[t][c] = "completed")

\* A task in status running that no live worker process is working on.
Stale(t) ==
    /\ status[t] = "running"
    /\ \A w \in Workers : ~(cur[w] = t /\ pc[w] \notin {"idle", "dead"})

\* C12: two rounds of the guard loop after a worker process was killed, the
\* task it was running no longer has a stale status running.
C12_StaleWithinTwoRounds ==
    \A t \in Tasks : kill_age >= 2 => ~Stale(t)


\* --------------------------------- pause and cancel during a run (C13)
\* C13: a worker process that holds a task whose status is paused or cancelled
\* marks no further chapter of it running and does not write another status
\* over the paused or cancelled.
C13_PauseCancelRespected ==
    [][\A w \in Workers :
          (/\ pc[w] \in {"w_pending", "w_loop", "w_final"}
           /\ pc'[w] # pc[w]
           /\ status[cur[w]] \in {"paused", "cancelled"})
              => /\ status'[cur[w]] = status[cur[w]]
                 /\ \A c \in Chapters :
                       chapter_status'[cur[w]][c] = "running"
                          => chapter_status[cur[w]][c] = "running"]_vars


\* ------------------------------------------ the task state machine (C14)
\* The transitions of the state table, and restart.
TableTransitions ==
    {<<"created", "running">>, <<"created", "failed">>, <<"created", "completed">>,
     <<"created", "cancelled">>,
     <<"running", "paused">>, <<"running", "failed">>, <<"running", "completed">>,
     <<"running", "cancelled">>,
     <<"paused", "running">>, <<"paused", "failed">>, <<"paused", "cancelled">>,
     <<"failed", "running">>, <<"failed", "cancelled">>,
     <<"completed", "running">>}

RestartTransitions ==
    {<<"completed", "created">>, <<"failed", "created">>, <<"cancelled", "created">>}

\* C14: every change of the status of a task is a transition of the state
\* table or a restart.
C14_OnlyPermittedTransitions ==
    [][\A t \in Tasks :
          status'[t] # status[t]
             => <<status[t], status'[t]>> \in TableTransitions \cup RestartTransitions]_vars


\* ------------------------------------------- where workers take work (C16)
\* C16: the reference a worker process claims is taken off the active batch
\* of the provider the process is bound to, and off no other list.
C16_ClaimsFromActiveBatch ==
    [][\A w \in Workers :
          (pc[w] = "idle" /\ pc'[w] = "w_start")
             => /\ Count(cur'[w], active_batch'[bound[w]])
                      = Count(cur'[w], active_batch[bound[w]]) - 1
                /\ UNCHANGED <<queue, main_queue>>]_vars


\* ------------------------------------------------ chapters per pop (C17)
\* C17: between two pops a worker process marks at most one chapter running.
C17_OneChapterPerPop ==
    \A w \in Workers : begun[w] <= 1


\* ---------------------------------------------- the batch scheduler (C18)
\* The process slot of the scheduler thread.
Scheduler == 1

\* Mutant: the test for an empty active batch is turned round.
NeedsBatch_ActiveNotEmpty(p) == Len(active_batch[p]) > 0 /\ Len(main_queue[p]) > 0

\* _check_and_load_batches: active_count == 0 and main_count > 0.
NeedsBatch(p) == Len(active_batch[p]) = 0 /\ Len(main_queue[p]) > 0

\* _get_active_providers: the providers whose main queue holds something.
get_active_providers == {p \in Providers : Len(main_queue[p]) > 0}

\* _check_and_load_batches, one turn of its loop over the providers that have
\* work: load_next_batch is called when the active batch is empty.
check_and_load_batches(p) ==
    /\ redis_up
    /\ p \in get_active_providers
    /\ NeedsBatch(p)
    /\ lb_check(Scheduler, p)

\* load_next_batch has returned; the scheduler goes on with the next
\* provider or waits for the next tick.
sched_continue ==
    /\ pc[Scheduler] = "done"
    /\ pc' = [pc EXCEPT ![Scheduler] = "idle"]
    /\ UNCHANGED <<bound, cur, seen, result, target, workVars, dbVars, rateVars, kvVars,
                   throttleVars, queueVars, histVars>>

\* enqueue_to_main_queue: rpush on the main queue of the provider.  A task has
\* one reference at most.  (The two logs are kept by the caller.)
enqueue_to_main_queue(t, p) ==
    /\ redis_up
    /\ \A q \in Providers : Queued(t, q) = 0
    /\ \A w \in Workers : cur[w] # t
    /\ Len(main_queue[p]) < MaxQueueLen
    /\ main_queue' = [main_queue EXCEPT ![p] = Append(@, t)]
    /\ UNCHANGED <<queue, active_batch, batch_size, procVars, dbVars, rateVars, kvVars,
                   throttleVars, fifoEnv>>

\* brpop_from_active_batch: the reference at the right end is taken.
brpop_from_active_batch(p) ==
    /\ redis_up
    /\ active_batch[p] # <<>>
    /\ active_batch' = [active_batch EXCEPT ![p] = SubSeq(@, 1, Len(@) - 1)]
    /\ UNCHANGED <<queue, main_queue, batch_size, procVars, dbVars, rateVars, kvVars,
                   throttleVars, fifoEnv>>

NextSched ==
    \/ \E p \in Providers : check_and_load_batches(p)
    \/ lb_pop(Scheduler)
    \/ lb_push(Scheduler)
    \/ sched_continue
    \/ \E t \in Tasks, p \in Providers : enqueue_to_main_queue(t, p) /\ UNCHANGED fifoVars
    \/ \E p \in Providers : brpop_from_active_batch(p) /\ UNCHANGED fifoVars

\* The interval job runs again and again and each run goes through every
\* provider that has work; a call of load_next_batch runs to its end.
FairSched ==
    /\ \A p \in Providers : SF_vars(check_and_load_batches(p))
    /\ WF_vars(lb_pop(Scheduler))
    /\ WF_vars(lb_push(Scheduler))
    /\ WF_vars(sched_continue)

SpecSchedLive == InitBatch /\ [][NextSched]_vars /\ FairSched

\* C18: a provider whose main queue is not empty while its active batch is
\* empty has a batch loaded later on.
C18_EmptyBatchRefilled ==
    \A p \in Providers :
        (main_queue[p] # <<>> /\ active_batch[p] = <<>>) ~> (active_batch[p] # <<>>)

\* C18 witness: the scheduler has loaded a batch for a provider whose tasks
\* were queued after the start.
C18_Witness ==
    \E p \in Providers :
        /\ pc[Scheduler] = "done"
        /\ target[Scheduler] = p
        /\ result[Scheduler].val > 0
        /\ active_batch[p] # <<>>


\* ------------------------------------------- failed graph writes (C19)
\* C19: a chapter one of whose graph writes raised is closed as failed.
C19_WriteErrorFailsChapter ==
    [][\A w \in Workers :
          (pc[w] = "w_persist" /\ pc'[w] # "w_persist" /\ write_error'[w])
             => chapter_status'[cur[w]][Head(pend[w])] = "failed"]_vars


\* --------------------------------------------- empty AI results (C20)
\* What holds of every chapter of an AI task: the rules extractor is not run
\* on it, it reaches the graph writes only with something extracted, and with
\* nothing extracted increment_failure is called and the chapter row is set
\* to failed.
NoRulesInAIMode(w) ==
    /\ extractor'[w] = "rules" => ~use_ai[cur'[w]]
    /\ (pc'[w] = "w_persist" /\ use_ai[cur'[w]]) => got'[w]
    /\ (pc[w] = "w_result" /\ pc'[w] \notin {"w_result", "dead"})
          => \/ pc'[w] = "w_mark_failed" /\ provider_name(w) = "none"
             \/ pc'[w] = "inc_check" /\ ret'[w] = "w_mark_failed"
    /\ (pc[w] = "w_mark_failed" /\ pc'[w] \notin {"w_mark_failed", "dead"})
          => chapter_status'[cur[w]][Head(pend[w])] = "failed"

\* The increment_failure call made for an empty result is at its first test.
EmptyResultCall(w) == pc[w] = "inc_check" /\ ret[w] = "w_mark_failed"

C21_CountersMatchRows ==
    \A t \in Tasks :
        /\ completed_chapters[t] = CountSt(chapter_status[t], "completed")
        /\ failed_chapters[t] = CountSt(chapter_status[t], "failed")

\* ---------------------------------------------- completion fraction (C22)
\* Two worker processes for the rule extractor (KG_WORKERS_PER_PROVIDER = 2),
\* the third for p1.
DeploymentRules == [w \in Workers |-> IF w <= 2 THEN "rules" ELSE "p1"]

\* Task 1, a rule-extraction task, has just been created; the other tasks
\* were completed before.
InitShared ==
    /\ status = [t \in Tasks |-> IF t = 1 THEN "created" ELSE "completed"]
    /\ row_lock = [t \in Tasks |-> 0]
    /\ chapter_status = [t \in Tasks |-> [c \in Chapters |->
                            IF t = 1 THEN "pending" ELSE "completed"]]
    /\ completed_chapters = [t \in Tasks |-> IF t = 1 THEN 0 ELSE NumChapters]
    /\ failed_chapters = [t \in Tasks |-> 0]
    /\ error_message = [t \in Tasks |-> FALSE]
    /\ QuietCounts
    /\ use_ai = [t \in Tasks |-> FALSE]
    /\ QuietRetry
    /\ pc = [w \in Workers |-> "idle"]
    /\ bound = DeploymentRules
    /\ cur = [w \in Workers |-> 0]
    /\ seen = [w \in Workers |-> 0]
    /\ result = [w \in Workers |-> NoResult]
    /\ target = [w \in Workers |-> "none"]
    /\ QuietWork
    /\ QuietRate
    /\ QuietThrottle
    /\ QuietQueues
    /\ init_status = status
    /\ restart_ret = "none"
    /\ create_ret = "none"
    /\ QuietLock
    /\ QuietPool
    /\ QuietFifo
    /\ GraphOf(Tasks \ {1})
    /\ redis_up = TRUE
    /\ QuietNode

\* The workers, the guard, and pause, resume and retry from the API.
NextShared ==
    \/ \E w \in Workers : RulesStep(w)
    \/ guard_auto_start
    \/ guard_zombie
    \/ \E t \in ApiTasks : pause_task(t)
    \/ \E t \in ApiTasks : resume_task(t)
    \/ \E t \in ApiTasks : retry_failed_chapters(t)

SpecShared == InitShared /\ [][NextShared]_vars

\* C22: the number of completed chapter rows of a task, and with it the
\* fraction completed_chapters / total_chapters, never decreases in a step
\* other than restart_task.
C22_CompletionMonotone ==
    [][\A t \in Tasks :
          \/ CountSt(chapter_status'[t], "completed") >= CountSt(chapter_status[t], "completed")
          \/ restart_task(t)]_vars

\* ------------------------------------------------ automatic retry (C23, C24)
\* What the retry operations of the task service leave alone.
retryEnv == <<row_lock, chapter_status, completed_chapters, failed_chapters, error_message,
              rowVars, totalVars, use_ai, procVars, rateVars, kvVars, throttleVars, queueVars, histVars>>

\* mark_task_for_retry: the task is set failed, with a retry scheduled if the
\* flag is set.
mark_task_for_retry(t) ==
    /\ status' = [status EXCEPT ![t] = "failed"]
    /\ retry_scheduled_at' = IF auto_retry_enabled[t]
                             THEN [retry_scheduled_at EXCEPT ![t] = now + RetryTicks]
                             ELSE retry_scheduled_at
    /\ UNCHANGED <<retryEnv, retryCfg>>

\* get_tasks_pending_retry: the failed tasks with the flag set whose scheduled
\* time is not after the clock (a NULL time compares as false).
get_tasks_pending_retry ==
    {t \in Tasks : /\ status[t] = "failed"
                   /\ auto_retry_enabled[t]
                   /\ retry_scheduled_at[t] # -1
                   /\ retry_scheduled_at[t] <= now}

\* Rule-extraction tasks whose automatic retry was switched on before they
\* were started, on a node without a name.
InitRetry ==
    /\ WorkBase
    /\ \A t \in Tasks : ~use_ai[t]
    /\ auto_retry_enabled = [t \in Tasks |-> TRUE]
    /\ retry_scheduled_at = [t \in Tasks |-> -1]
    /\ retry_count = [t \in Tasks |-> 0]
    /\ QuietNode

\* The worker processes, which may be killed, the guard thread, and
\* mark_task_for_retry from the API.
NextRetry ==
    \/ \E w \in Workers : RulesStep(w)
    \/ \E w \in Workers : kill(w)
    \/ \E w \in Workers : orphan_expire(w)
    \/ guard_round
    \/ \E t \in Tasks : mark_task_for_retry(t)

SpecRetry == InitRetry /\ [][NextRetry]_vars

\* C23: whenever a step sets a task failed while its auto-retry flag is set,
\* the retry of the task is scheduled at the time of the step plus the retry
\* interval.
C23_FailedIsScheduled ==
    [][\A t \in Tasks :
          (status[t] # "failed" /\ status'[t] = "failed" /\ auto_retry_enabled'[t])
             => retry_scheduled_at'[t] = now' + RetryTicks]_vars

\* The worker processes, the guard thread and the clock: nobody calls the API.
NextRetryLive ==
    \/ \E w \in Workers : RulesStep(w)
    \/ guard_round
    \/ Tick

\* The worker loops and the guard loop never stop, and time passes.
FairRetry ==
    /\ \A w \in Workers : WF_vars(RulesStep(w))
    /\ WF_vars(guard_round)
    /\ WF_vars(Tick)

SpecRetryLive == InitRetry /\ [][NextRetryLive]_vars /\ FairRetry

\* C24: a failed task with the auto-retry flag set whose scheduled time has
\* passed is retried later on without a call from the API: its retry is
\* counted and the task runs again.
C24_DueRetryExecuted ==
    \A t \in Tasks :
        (t \in get_tasks_pending_retry) ~> (retry_count[t] > 0 \/ status[t] = "running")


C26_RestartCleansGraph ==
    [][\A t \in Tasks :
          (restart_task(t) /\ restart_ret' = "true") =>
              \A n \in GraphNodes :
                  /\ ~(graph_has'[n] /\ InList(graph_task_id'[n], t))
                  /\ (graph_has[n] /\ graph_task_id[n] = <<t>>) => ~graph_has'[n]
                  /\ (graph_has[n] /\ InList(graph_task_id[n], t) /\ graph_task_id[n] # <<t>>) =>
                         /\ graph_has'[n]
                         /\ graph_task_id'[n] = SelectSeq(graph_task_id[n], LAMBDA tid : tid # t)]_vars


\* ------------------------------------------- creation of a task (C27)
\* create_task for a task id not yet taken: chapters are the chapters of the
\* novel the query has found (all of them, or those of chapter_ids); with none
\* found ValueError is raised and nothing is stored; else the task row is
\* stored in status created with a pending row for each chapter.  use_ai[t] is
\* the use_ai the call passes.
create_task(t, chapters) ==
    /\ status[t] = "none"
    /\ IF chapters = {}
       THEN /\ create_ret' = "error"
            /\ UNCHANGED <<status, chapter_status>>
       ELSE /\ create_ret' = "created"
            /\ status' = [status EXCEPT ![t] = "created"]
            /\ chapter_status' = [chapter_status EXCEPT ![t] =
                                     [c \in Chapters |-> IF c \in chapters THEN "pending" ELSE "absent"]]
    /\ UNCHANGED <<retry_scheduled_at, row_lock, completed_chapters, failed_chapters,
                   error_message, use_ai, retryCfg, rowVars, totalVars, procVars, rateVars,
                   kvVars, throttleVars, queueVars, init_status, restart_ret, lockVars, fifoVars, poolVars,
                   fails_done, susp_after, graphVars>>

\* Task 1 has not been created yet; the other tasks were completed before.
InitCreate ==
    /\ status = [t \in Tasks |-> IF t = 1 THEN "none" ELSE "completed"]
    /\ row_lock = [t \in Tasks |-> 0]
    /\ chapter_status = [t \in Tasks |-> [c \in Chapters |->
                            IF t = 1 THEN "absent" ELSE "completed"]]
    /\ completed_chapters = [t \in Tasks |-> IF t = 1 THEN 0 ELSE NumChapters]
    /\ failed_chapters = [t \in Tasks |-> 0]
    /\ error_message = [t \in Tasks |-> FALSE]
    /\ QuietCounts
    /\ QuietRetry
    /\ use_ai = [t \in Tasks |-> FALSE]
    /\ pc = [w \in Workers |-> "idle"]
    /\ bound = Deployment
    /\ cur = [w \in Workers |-> 0]
    /\ seen = [w \in Workers |-> 0]
    /\ result = [w \in Workers |-> NoResult]
    /\ target = [w \in Workers |-> "none"]
    /\ QuietWork
    /\ QuietRate
    /\ QuietThrottle
    /\ QuietQueues
    /\ init_status = status
    /\ restart_ret = "none"
    /\ create_ret = "none"
    /\ QuietLock
    /\ QuietPool
    /\ QuietFifo
    /\ GraphOf(Tasks \ {1})
    /\ redis_up = TRUE
    /\ QuietNode

\* The API creates the task for any selection of chapters, the guard queues
\* it and the rules worker runs it.
NextCreate ==
    \/ \E t \in ApiTasks, chapters \in SUBSET Chapters : create_task(t, chapters)
    \/ \E w \in Workers : RulesStep(w)
    \/ guard_auto_start
    \/ guard_zombie

SpecCreate == InitCreate /\ [][NextCreate]_vars

\* C27: a task created with an empty chapter list is stored in status created,
\* a task without chapter rows leaves status created for completed alone, and
\* it never is failed.
C27_EmptyTaskCompletes ==
    [][\A t \in Tasks :
          /\ create_task(t, {}) => status'[t] = "created"
          /\ (/\ status[t] = "created"
              /\ Rows(t) = {}
              /\ status'[t] # "created") => status'[t] = "completed"
          /\ (status'[t] # "none" /\ Rows(t) = {}) => status'[t] # "failed"]_vars


(***************************************************************************)
(* The distributed lock of utils/redis_lock.py: one key, set with SET NX   *)
(* EX and released with a compare-and-delete script.  The client handed to *)
(* the lock is taken to answer is_connected() and to pass set(nx, ex) and  *)
(* eval on to the KV store as the calls are written.                       *)
(***************************************************************************)

\* timeout of the calls (seconds), the TTL the key is set with.
LockTimeout == 1

\* What the lock leaves alone.
lockEnv == <<dbVars, procVars, rateVars, kvVars, throttleVars, queueVars, init_status,
             restart_ret, create_ret, poolVars, fifoVars, graphVars, fails_done, susp_after>>

\* The key exists: it was set and its TTL has not run out.
KeyLive == lock_value # <<>> /\ now < lock_expire_at

\* lock_value of a call: f"{os.getpid()}_{time.time()}".
NewLockValue(w) == <<w, now>>

\* redis_distributed_lock up to the yield, and acquire_lock, without blocking:
\* with the KV store away nothing is acquired; else SET NX EX sets the key
\* if there is none, and the caller enters the section it guards; a caller
\* that finds the key stays out.
acquire_lock(w) ==
    /\ lock_pc[w] = "out"
    /\ redis_up
    /\ ~KeyLive
    /\ lock_value' = NewLockValue(w)
    /\ lock_expire_at' = now + LockTimeout * TicksPerSecond
    /\ lock_mine' = [lock_mine EXCEPT ![w] = NewLockValue(w)]
    /\ lock_pc' = [lock_pc EXCEPT ![w] = "in"]
    /\ UNCHANGED <<lock_ret, lockEnv>>

\* Mutant: the script deletes the key whatever value it holds.
HoldsOwnValue_AnyValue(w) == KeyLive

\* The test of the release script: GET of the key gives the value of the caller.
HoldsOwnValue(w) == KeyLive /\ lock_value = lock_mine[w]

\* The finally part of redis_distributed_lock, and release_lock: the script
\* deletes the key if it holds the value of the caller (1), else leaves it
\* (0); with the KV store away the key is not touched and the release fails.
release_lock(w) ==
    /\ lock_pc[w] = "in"
    /\ lock_pc' = [lock_pc EXCEPT ![w] = "out"]
    /\ IF redis_up /\ HoldsOwnValue(w)
       THEN /\ lock_value' = <<>>
            /\ lock_ret' = [lock_ret EXCEPT ![w] = "true"]
       ELSE /\ lock_ret' = [lock_ret EXCEPT ![w] = "false"]
            /\ UNCHANGED lock_value
    /\ UNCHANGED <<lock_expire_at, lock_mine, lockEnv>>

InitLock ==
    /\ QuietDB
    /\ QuietProc
    /\ QuietRate
    /\ QuietThrottle
    /\ QuietQueues
    /\ init_status = status
    /\ restart_ret = "none"
    /\ create_ret = "none"
    /\ QuietLock
    /\ QuietPool
    /\ QuietFifo
    /\ QuietGraph
    /\ redis_up = TRUE
    /\ QuietNode

\* Any process asks for the lock and leaves the section at any time, the clock
\* advances, the KV store comes and goes.
NextLock ==
    \/ \E w \in Workers : acquire_lock(w)
    \/ \E w \in Workers : release_lock(w)
    \/ Tick
    \/ kv_disconnect
    \/ kv_reconnect

SpecLock == InitLock /\ [][NextLock]_vars

MAX_TOTAL_PROCESSES == 4
MAX_PROCESSES_PER_PROVIDER == 2
\* Largest per_provider_processes a caller passes.
MaxPerProvider == 3
\* Most dead processes _worker_processes holds for a provider.
MaxDead == 1

\* What the pool leaves alone.
poolEnv == <<dbVars, procVars, rateVars, kvVars, throttleVars, queueVars, init_status,
             restart_ret, create_ret, lockVars, fifoVars, graphVars, fails_done, susp_after>>

ProviderSeq == <<"p1", "p2", "rules">>

Min(a, b) == IF a < b THEN a ELSE b

\* start_kg_task_workers, the loop over the providers: started[p] processes
\* have been started for the providers before position i; the count for a
\* provider is what it lacks, cut to the limit of the provider and to what
\* the limit of the host leaves, and the loop is left when that is nothing.
RECURSIVE StartLoop(_, _, _, _, _)
StartLoop(i, per, current_total, created_count, started) ==
    IF i > Len(ProviderSeq) THEN started
    ELSE LET provider == ProviderSeq[i]
             existing_count == pool_alive[provider]
             needed_count == per - existing_count
             allowed_per_provider == Min(needed_count, MAX_PROCESSES_PER_PROVIDER - existing_count)
             allowed_total == MAX_TOTAL_PROCESSES - current_total - created_count
             actual_count == Min(allowed_per_provider, allowed_total)
         IN IF needed_count <= 0 \/ existing_count >= MAX_PROCESSES_PER_PROVIDER
            THEN StartLoop(i + 1, per, current_total, created_count, started)
            ELSE IF actual_count <= 0
            THEN started
            ELSE StartLoop(i + 1, per, current_total, created_count + actual_count,
                           [started EXCEPT ![provider] = actual_count])

PoolTotal(alive) == alive["p1"] + alive["p2"] + alive["rules"]

\* start_kg_task_workers for the active providers and rules, under
\* _worker_lock: the dead processes are dropped from the list; at the limit of
\* the host nothing is started; else the loop starts what is lacking.
start_kg_task_workers(per) ==
    LET current_total == PoolTotal(pool_alive)
        started == IF current_total >= MAX_TOTAL_PROCESSES
                   THEN [p \in Providers |-> 0]
                   ELSE StartLoop(1, per, current_total, 0, [p \in Providers |-> 0])
    IN /\ pool_dead' = [p \in Providers |-> 0]
       /\ pool_alive' = [p \in Providers |-> pool_alive[p] + started[p]]
       /\ UNCHANGED poolEnv

\* start_workers_for_providers: per processes are started for every provider
\* asked for that no process of the list, live or dead, is named after.
start_workers_for_providers(providers, per) ==
    LET existing == {p \in Providers : pool_alive[p] + pool_dead[p] > 0}
        to_start == providers \ existing
    IN /\ providers # {}
       /\ pool_alive' = [p \in Providers |-> IF p \in to_start THEN pool_alive[p] + per
                                             ELSE pool_alive[p]]
       /\ UNCHANGED <<pool_dead, poolEnv>>

\* A worker process dies; it stays in the list until the list is cleaned.
worker_dies(p) ==
    /\ pool_alive[p] > 0
    /\ pool_dead[p] < MaxDead
    /\ pool_alive' = [pool_alive EXCEPT ![p] = @ - 1]
    /\ pool_dead' = [pool_dead EXCEPT ![p] = @ + 1]
    /\ UNCHANGED poolEnv

InitPool ==
    /\ QuietDB
    /\ QuietProc
    /\ QuietRate
    /\ QuietThrottle
    /\ QuietQueues
    /\ init_status = status
    /\ restart_ret = "none"
    /\ create_ret = "none"
    /\ QuietLock
    /\ QuietPool
    /\ QuietFifo
    /\ QuietGraph
    /\ redis_up = TRUE
    /\ QuietNode

\* The guard and the API start workers with any number per provider, and
\* worker processes die.
NextPool ==
    \/ \E per \in 1..MaxPerProvider : start_kg_task_workers(per)
    \/ \E providers \in SUBSET Providers, per \in 1..MaxPerProvider :
          start_workers_for_providers(providers, per)
    \/ \E p \in Providers : worker_dies(p)

SpecPool == InitPool /\ [][NextPool]_vars

\* C30: the live processes of the host are at most MAX_TOTAL_PROCESSES and
\* those of any provider at most MAX_PROCESSES_PER_PROVIDER, whatever starts
\* and deaths have gone before.
C30_PoolWithinCaps ==
    /\ PoolTotal(pool_alive) <= MAX_TOTAL_PROCESSES
    /\ \A p \in Providers : pool_alive[p] <= MAX_PROCESSES_PER_PROVIDER

\* The rest of the sentence: no start adds a process for a provider that has
\* the number asked for alive.
NoStartAtTarget ==
    [][\A per \in 1..MaxPerProvider :
          (\/ start_kg_task_workers(per)
           \/ \E providers \in SUBSET Providers : start_workers_for_providers(providers, per))
              => \A p \in Providers : pool_alive[p] >= per => pool_alive'[p] = pool_alive[p]]_vars


\* ------------------------------------------------- zombie check outcome (C31)
\* The status the rows of task t call for: completed when every chapter row is
\* completed, failed when a row failed or an error message is present, created
\* otherwise.
StatusByRows(t) ==
    IF is_task_fully_completed(t) THEN "completed"
    ELSE IF error_message[t] \/ \E c \in Rows(t) : chapter_status[t][c] = "failed"
         THEN "failed"
         ELSE "created"

\* The tasks named in the hash of a worker process.
InWorkerHash(t) == \E w \in Workers : worker_task[w] = t \/ orphan[w] = t

\* Every task is a rule-extraction task that has just been created.
InitZombie ==
    /\ status = [t \in Tasks |-> "created"]
    /\ row_lock = [t \in Tasks |-> 0]
    /\ chapter_status = [t \in Tasks |-> [c \in Chapters |-> "pending"]]
    /\ completed_chapters = [t \in Tasks |-> 0]
    /\ failed_chapters = [t \in Tasks |-> 0]
    /\ error_message = [t \in Tasks |-> FALSE]
    /\ QuietCounts
    /\ use_ai = [t \in Tasks |-> FALSE]
    /\ QuietRetry
    /\ pc = [w \in Workers |-> "idle"]
    /\ bound = Deployment
    /\ cur = [w \in Workers |-> 0]
    /\ seen = [w \in Workers |-> 0]
    /\ result = [w \in Workers |-> NoResult]
    /\ target = [w \in Workers |-> "none"]
    /\ QuietWork
    /\ QuietRate
    /\ QuietThrottle
    /\ QuietQueues
    /\ init_status = status
    /\ restart_ret = "none"
    /\ create_ret = "none"
    /\ QuietLock
    /\ QuietPool
    /\ QuietFifo
    /\ QuietGraph
    /\ redis_up = TRUE
    /\ QuietNode

\* Workers, guard and the resume call of the API.
NextZombie ==
    \/ \E w \in Workers : RulesStep(w)
    \/ guard_auto_start
    \/ guard_zombie
    \/ \E t \in ApiTasks : resume_task(t)

SpecZombie == InitZombie /\ [][NextZombie]_vars

\* C31: a zombie check sets every running task that no worker hash names to
\* completed if all its chapter rows are completed, else to failed if a row
\* failed or an error message is present, else to created; it changes no task
\* that a worker hash names and no task that is not running.
C31_ZombieByRows ==
    [][guard_zombie =>
          \A t \in Tasks :
              status'[t] = IF status[t] = "running" /\ ~InWorkerHash(t)
                           THEN StatusByRows(t)
                           ELSE status[t]]_vars

\* ---------------------------------------------- hash of an idle worker (C32)
\* C32: the hash of a worker process that is not in a run names no task: once
\* the run of a task is over (or the task was refused), the task is no longer
\* among the active tasks the zombie check reads.
C32_IdleHashNamesNoTask ==
    \A w \in Workers : pc[w] = "idle" => worker_task[w] = 0

\* ------------------------------------------- one call of load_next_batch (C33)
\* The commands one call sends to the KV store, in the order it sends them:
\* the ping of get_redis_client, llen, then lpop and lpush for every turn of
\* the loop.
OpClient == 0
OpLlen == 1
OpLpop(i) == 2 * i
OpLpush(i) == 2 * i + 1

\* RedisClient.lpush: the value is pushed when the store answers, else the
\* call returns 0 and the value is dropped.
lpush(list, item, answered) == IF answered THEN <<item>> \o list ELSE list

\* The loop of load_next_batch from turn i on: lpop returns None when the main
\* queue is empty or the store does not answer, which ends the loop; a popped
\* reference is pushed on the active batch and counted.
RECURSIVE MoveLoop(_, _, _, _, _, _)
MoveLoop(main, active, loaded, i, size, up) ==
    IF i > size \/ ~up[OpLpop(i)] \/ main = <<>>
    THEN <<main, active, loaded>>
    ELSE MoveLoop(Tail(main), lpush(active, Head(main), up[OpLpush(i)]), loaded + 1,
                  i + 1, size, up)

\* load_next_batch(p, batch_size), called by w and run from its first line to
\* its return with no other call in between; up tells which of its commands
\* the KV store answers.
load_next_batch(w, p, up) ==
    /\ pc[w] = "idle"
    /\ up[OpClient] = redis_up
    /\ redis_up' = up[OpLpush(batch_size)]
    /\ LET active_count == IF up[OpLlen] THEN Len(active_batch[p]) ELSE 0
           r == IF ~up[OpClient] \/ active_count > 0
                THEN <<main_queue[p], active_batch[p], 0>>
                ELSE MoveLoop(main_queue[p], active_batch[p], 0, 1, batch_size, up)
       IN /\ main_queue' = [main_queue EXCEPT ![p] = r[1]]
          /\ active_batch' = [active_batch EXCEPT ![p] = r[2]]
          /\ result' = [result EXCEPT ![w] = Loaded(r[3])]
    /\ target' = [target EXCEPT ![w] = p]
    /\ UNCHANGED <<pc, seen, workVars, bound, cur, dbVars, rateVars, nodeVars, throttleVars, queue,
                   batch_size, histVars>>

\* Which commands of a call the KV store answers.
Answers == [0..(2 * MaxBatch + 1) -> BOOLEAN]

\* The active batches hold references too, none of them twice.
InitLoad ==
    /\ QuietDB
    /\ QuietProc
    /\ QuietRate
    /\ QuietThrottle
    /\ init_status = status
    /\ restart_ret = "none"
    /\ create_ret = "none"
    /\ QuietLock
    /\ QuietPool
    /\ QuietFifo
    /\ QuietGraph
    /\ redis_up = TRUE
    /\ QuietNode
    /\ queue = [p \in Providers |-> <<>>]
    /\ active_batch = [p \in Providers |-> <<>>]
    /\ main_queue = [p \in Providers |-> <<>>]
    /\ batch_size \in 1..MaxBatch

\* The scheduler calls load_next_batch, one call after the other; tasks are
\* queued and workers take references in between.
NextLoad ==
    \/ \E p \in Providers, up \in Answers : load_next_batch(Scheduler, p, up)
    \/ \E t \in Tasks, p \in Providers : enqueue_to_main_queue(t, p) /\ UNCHANGED fifoVars
    \/ \E p \in Providers : brpop_from_active_batch(p) /\ UNCHANGED fifoVars
    \/ kv_disconnect
    \/ kv_reconnect

SpecLoad == InitLoad /\ [][NextLoad]_vars

\* What the call of load_next_batch(p) by w had to do in this step.
LoadedAsSpecified(w, p) ==
    LET n == result'[w].val
        moved == SubSeq(main_queue[p], 1, n)
    IN IF Len(active_batch[p]) > 0
       THEN /\ n = 0
            /\ main_queue'[p] = main_queue[p]
            /\ active_batch'[p] = active_batch[p]
       ELSE /\ n = Min(batch_size, Len(main_queue[p]))
            /\ main_queue'[p] = SubSeq(main_queue[p], n + 1, Len(main_queue[p]))
            /\ \A t \in Tasks :
                  /\ Count(t, active_batch'[p]) = Count(t, moved)
                  /\ Count(t, main_queue'[p]) + Count(t, active_batch'[p])
                         = Count(t, main_queue[p]) + Count(t, active_batch[p])

\* C33: one call of load_next_batch(P, B) with no other call in between
\* returns 0 and leaves both queues as they are when the active batch of P is
\* not empty; else it returns n = min(B, len(main:P)), takes the first n
\* references from main:P and adds just these to active:P, and the references
\* of both lists together are the same before and after.
C33_SingleLoadMoves ==
    [][\A p \in Providers :
          (\E up \in Answers : load_next_batch(Scheduler, p, up))
              => LoadedAsSpecified(Scheduler, p)]_vars

\* ------------------------------------------------ order of the pops (C34)
\* The provider whose queues are watched, and the number of references pushed
\* on its main queue.
Watched == "p1"
MaxLog == 4

\* enqueue_to_main_queue(t, Watched), written down in the log.
logged_enqueue(t) ==
    /\ Len(enq_log) < MaxLog
    /\ enqueue_to_main_queue(t, Watched)
    /\ enq_log' = Append(enq_log, t)
    /\ UNCHANGED pop_log

\* brpop_from_active_batch(Watched) by the one worker of the provider, written
\* down in the log.
logged_brpop ==
    /\ brpop_from_active_batch(Watched)
    /\ pop_log' = Append(pop_log, active_batch[Watched][Len(active_batch[Watched])])
    /\ UNCHANGED enq_log

\* Nothing is queued; the batch size is the one every caller passes.
InitFifo ==
    /\ InitLoad

\* Tasks are queued for the provider, the scheduler job loads batches (its
\* runs do not overlap: max_instances=1), the one worker of the provider pops.
NextFifo ==
    \/ \E t \in Tasks : logged_enqueue(t)
    \/ check_and_load_batches(Watched) /\ UNCHANGED fifoVars
    \/ lb_pop(Scheduler)
    \/ lb_push(Scheduler)
    \/ sched_continue
    \/ logged_brpop

SpecFifo == InitFifo /\ [][NextFifo]_vars

\* C34: with one worker on provider P and no reassignment the references are
\* popped in the order in which they were pushed on main:P, within a batch and
\* from one batch to the next: what has been popped so far is the beginning of
\* what has been pushed.
C34_PopsInEnqueueOrder ==
    /\ Len(pop_log) <= Len(enq_log)
    /\ pop_log = SubSeq(enq_log, 1, Len(pop_log))

\* C34 witness: the worker has popped three references or more, among them
\* different ones, which is more than one batch holds, and the scheduler is
\* between two calls of load_next_batch.
C34_Witness ==
    /\ batch_size < Len(pop_log)
    /\ Len(pop_log) >= 3
    /\ \E i, j \in 1..Len(pop_log) : i # j /\ pop_log[i] # pop_log[j]
    /\ pc[Scheduler] = "idle"

\* ---------------------------------------------------- execute_retry (C35)
\* Retries counted per task.
MaxRetryCount == 2

\* What execute_retry leaves alone.
redoEnv == <<bound, seen, result, target, row_lock, use_ai, auto_retry_enabled, rateVars, kvVars,
             main_queue, active_batch, batch_size, restVars, susp_after, mem_suspended, graphVars,
             pc, cur, workVars, queue, failVars>>

\* Mutant: the retry is not counted.
execute_retry_NotCounted(t) ==
    /\ retry_count[t] < MaxRetryCount
    /\ retry_count' = retry_count
    /\ retry_scheduled_at' = [retry_scheduled_at EXCEPT ![t] = -1]
    /\ retry_failed_rows(t)
    /\ UNCHANGED redoEnv

\* execute_retry: the retry is counted and the scheduled time cleared, then
\* retry_failed_chapters is called.
execute_retry(t) ==
    /\ retry_count[t] < MaxRetryCount
    /\ retry_count' = [retry_count EXCEPT ![t] = @ + 1]
    /\ retry_scheduled_at' = [retry_scheduled_at EXCEPT ![t] = -1]
    /\ retry_failed_rows(t)
    /\ UNCHANGED redoEnv

\* The worker processes, the guard, and the retry and resume calls of the API.
NextRedo ==
    \/ \E w \in Workers : RulesStep(w)
    \/ guard_auto_start
    \/ \E t \in ApiTasks : execute_retry(t)
    \/ \E t \in ApiTasks : resume_task(t)

SpecRedo == InitRetry /\ [][NextRedo]_vars

RECURSIVE SumRows(_, _)
SumRows(f, n) == IF n = 0 THEN 0 ELSE f[n] + SumRows(f, n - 1)

\* C36: a step that sets a task completed leaves its total_entities and
\* total_relations equal to the sums of entities_extracted and
\* relations_extracted over its chapter rows, also when the chapters were
\* completed in several runs.
C36_TotalsAreRowSums ==
    [][\A t \in Tasks :
          (status[t] # "completed" /\ status'[t] = "completed")
              => /\ total_entities'[t] = SumRows(entities_extracted'[t], NumChapters)
                 /\ total_relations'[t] = SumRows(relations_extracted'[t], NumChapters)]_vars

\* ------------------------------------------- a grant records its time (C37)
\* C37: a call of try_acquire_request_permit for a provider with an interval
\* is granted only if this call has written its clock reading as the time of
\* the last request of the provider, and a call that finds less than the
\* interval elapsed since the time on record is not granted.
C37_GrantRecordsTime ==
    [][\A w \in Workers :
          (permit_eval(w) /\ result'[w].success)
              => LET p == target[w]
                     t == seen[w]
                 IN /\ last_request'[p] = t
                    /\ ~(/\ last_request[p] # -1
                         /\ t - last_request[p] < rate_limit_interval[p] * TicksPerSecond)]_vars

\* --------------------------------------- one worker per task at a time (C38)
\* Process w is within a turn of the chapter loop: it has marked a chapter
\* running and has not closed it yet.
InChapter(w) ==
    pc[w] \in {"w_extract", "w_entity", "w_protagonist", "w_relation", "w_result",
               "w_mark_failed", "w_persist"}

\* C38: no two worker processes are in the chapter loop of
\* build_knowledge_graph_with_task for the same task at the same time.
C38_OneWorkerInLoop ==
    \A v, w \in Workers :
        (v # w /\ InChapter(v) /\ InChapter(w)) => cur[v] # cur[w]

\* ------------------------------------- zombie check and live workers (C39)
\* Process w is in a run of build_knowledge_graph_with_task that has started
\* the task.
InRun(w) == pc[w] \in {"w_pending", "w_loop", "w_final"} \/ InChapter(w)

\* The hash kg:worker:<pid> of a process expires 3600 s after it was written;
\* a process writes it when it pops a reference and again when the run is over,
\* not during the run.
hash_expire(w) ==
    /\ InRun(w)
    /\ worker_task[w] # 0
    /\ worker_task' = [worker_task EXCEPT ![w] = 0]
    /\ UNCHANGED <<workEnv, pc, cur, pend, got, noteVars, ret, queue, status, retry_scheduled_at,
                   chapVars, failVars>>

\* Worker processes and the guard, with a KV store that may stop answering
\* and runs that may outlast the TTL of the worker hash.
NextOutage ==
    \/ \E w \in Workers : RulesStep(w)
    \/ guard_auto_start
    \/ guard_zombie
    \/ \E w \in Workers : hash_expire(w)
    \/ kv_disconnect
    \/ kv_reconnect

SpecOutage == InitTask /\ [][NextOutage]_vars

\* C39: the zombie check does not change the status of a task that a live
\* worker process is executing.
C39_LiveRunNotReclassified ==
    [][guard_zombie =>
          \A t \in Tasks :
              (\E w \in Workers : InRun(w) /\ cur[w] = t) => status'[t] = status[t]]_vars

\* ------------------------------------- failed chapters and suspension (C40)
\* The chapter rows that have failed or are being worked on.
ChaptersTried ==
    {<<t, c>> \in Tasks \X Chapters : chapter_status[t][c] \in {"failed", "running"}}

\* C40: a failed chapter attempt counts as one failure of the provider, so
\* that a provider is suspended only after three chapters have failed: while
\* fewer than three chapters have failed or are under way, no provider is
\* suspended.
C40_OneFailurePerChapter ==
    \A p \in AIProviders :
        suspend[p] => Cardinality(ChaptersTried) >= MAX_CONSECUTIVE_FAILURES

====
